---- MODULE Spec2Model ----
(***************************************************************************)
(* Model of the waveform-sequence programmer of qtlab:                     *)
(*   src/modules/pulsar/pulsar.py  (classes Pulsar and Sequence).          *)
(*                                                                         *)
(* Names of sequence elements and of pulse Elements are integers (the code *)
(* uses strings; only equality of names matters).  None is 0 wherever a    *)
(* name may be None.  A channel id 'chN', 'chN_marker1', 'chN_marker2' is  *)
(* the record [ch |-> N, sub |-> "analog" | "marker1" | "marker2"]; the    *)
(* string  wfname + '_' + id[:3]  is the pair <<wfname, N>>.               *)
(***************************************************************************)
EXTENDS Integers, Sequences, FiniteSets, TLC

VARIABLES
    elements,          \* Sequence.elements: list of element specs
    djump_on,          \* Sequence.djump_table != None
    djump_table,       \* Sequence.djump_table: address -> element name
    channels,          \* Pulsar.channels: logical channel name -> record
    AWG_type,          \* Pulsar.AWG_type
    AWG_sequence_cfg,  \* Pulsar.AWG_sequence_cfg (class attribute)
    AWG,               \* Pulsar.AWG: the sequence the device holds
    log,               \* device (AWG) transactions issued by the last call
    call,              \* the last operation called, with its arguments
    ret,               \* what the last operation returned (a list for the
                       \* registry queries) or raised
    ncalls             \* number of programming calls made so far

vars == <<elements, djump_on, djump_table, channels, AWG_type,
          AWG_sequence_cfg, AWG, log, call, ret, ncalls>>

seq_vars == <<elements, djump_on, djump_table>>
pulsar_vars == <<channels, AWG_type, AWG_sequence_cfg, AWG>>

---------------------------------------------------------------------------
(* Bounds of the model *)

MaxLen == 2        \* longest Sequence built by the insert/append actions
NumNames == 2      \* sequence element names are 1..NumNames

None == 0
Names == 1..NumNames

(* the number of elements above which program_awg gives up *)
ELEMENT_LIMIT == 8000

(* number of slots of the device's dynamic jump table *)
DJUMP_SLOTS == 16

---------------------------------------------------------------------------
(* Python list helpers *)

Min(a, b) == IF a < b THEN a ELSE b
Max(a, b) == IF a > b THEN a ELSE b

(* list.insert(pos, x) with a 0-based pos: a pos beyond the end appends, a
   negative pos counts from the end and is clamped at the front *)
list_insert(l, pos, x) ==
    LET n == Len(l)
        p == IF pos < 0 THEN Max(0, n + pos) ELSE Min(pos, n)
    IN  SubSeq(l, 1, p) \o <<x>> \o SubSeq(l, p + 1, n)

(* list.index(x): 0-based position of the first occurrence; the caller
   checks list_has first (Python raises ValueError otherwise) *)
list_has(l, x) == \E i \in 1..Len(l) : l[i] = x
list_index(l, x) ==
    (CHOOSE i \in 1..Len(l) : l[i] = x /\ \A j \in 1..(i - 1) : l[j] /= x) - 1

---------------------------------------------------------------------------
(* class Sequence *)

_make_element_spec(name, wfname, repetitions, goto_target, jump_target, trigger_wait) ==
    [name |-> name, wfname |-> wfname, repetitions |-> repetitions,
     goto_target |-> goto_target, jump_target |-> jump_target,
     trigger_wait |-> trigger_wait]

element_names(elts) == [i \in 1..Len(elts) |-> elts[i].name]

(* the loop at the top of insert_element and of append_element *)
name_in_use_last(elts, name) ==
    Len(elts) > 0 /\ elts[Len(elts)].name = name

name_in_use_wfname(elts, name) ==
    \E i \in 1..Len(elts) : elts[i].wfname = name

name_in_use(elts, name) == \E i \in 1..Len(elts) : elts[i].name = name

element_count(elts) == Len(elts)

(* Sequence.element_index: names.index(name) + start_idx, start_idx = 1 *)
element_index_from_zero(elts, name) == list_index(element_names(elts), name)

element_index(elts, name) == list_index(element_names(elts), name) + 1
index_resolves(elts, name) == list_has(element_names(elts), name)

(* the list after insert_element's  self.elements.insert(pos, elt);
   pos is <<>> for None and <<p>> for an explicit position *)
inserted(elts, pos, elt) ==
    list_insert(elts, IF pos = <<>> THEN Len(elts) ELSE pos[1], elt)

---------------------------------------------------------------------------
(* Arguments the callers pass in the model *)

(* keyword arguments of insert_element / append: the fields of an element
   spec other than its name *)
EltKw ==
    { [wfname |-> 1, repetitions |-> 1, goto_target |-> None,
       jump_target |-> None, trigger_wait |-> TRUE],
      [wfname |-> 2, repetitions |-> 5, goto_target |-> 2,
       jump_target |-> 1, trigger_wait |-> FALSE] }

(* pos arguments: None, the front, the middle, far beyond the end, and
   counted from the end *)
PosArgs == { <<>>, <<0>>, <<1>>, <<7>>, <<-1>> }

(* addresses given to add_djump_address *)
DjumpPatterns == {0, 15, 16}

---------------------------------------------------------------------------
(* Sequence operations as actions *)

insert_element(name, wfname, pos, repetitions, goto_target, jump_target, trigger_wait) ==
    /\ call' = [op |-> "insert_element", name |-> name]
    /\ IF name_in_use(elements, name)
       THEN /\ ret' = "False"
            /\ elements' = elements
       ELSE /\ elements' = inserted(elements, pos,
                              _make_element_spec(name, wfname, repetitions,
                                  goto_target, jump_target, trigger_wait))
            /\ ret' = "True"
    /\ log' = <<>>
    /\ UNCHANGED <<djump_on, djump_table, pulsar_vars, ncalls>>

(* Sequence.append: insert_element at pos = len(elements); the result of
   insert_element is dropped and None is returned *)
append(name, wfname, kw) ==
    /\ call' = [op |-> "append", name |-> name]
    /\ IF name_in_use(elements, name)
       THEN elements' = elements
       ELSE elements' = inserted(elements, <<Len(elements)>>,
                            _make_element_spec(name, wfname, kw.repetitions,
                                kw.goto_target, kw.jump_target,
                                kw.trigger_wait))
    /\ ret' = "None"
    /\ log' = <<>>
    /\ UNCHANGED <<djump_on, djump_table, pulsar_vars, ncalls>>

append_element(element, pos) ==
    /\ call' = [op |-> "append_element", name |-> element.name]
    /\ IF name_in_use(elements, element.name)
       THEN /\ ret' = "False"
            /\ elements' = elements
       ELSE /\ elements' = inserted(elements, pos, element)
            /\ ret' = "True"
    /\ log' = <<>>
    /\ UNCHANGED <<djump_on, djump_table, pulsar_vars, ncalls>>

EmptyTable == [a \in {} |-> None]

(* the table after  self.djump_table[pattern] = name *)
table_set(table, pattern, name) ==
    [a \in (DOMAIN table) \cup {pattern} |->
        IF a = pattern THEN name ELSE table[a]]

set_djump(state) ==
    /\ call' = [op |-> "set_djump", state |-> state]
    /\ djump_on' = state
    /\ djump_table' = EmptyTable
    /\ ret' = "True"
    /\ log' = <<>>
    /\ UNCHANGED <<elements, pulsar_vars, ncalls>>

(* with djump_table = None the item assignment raises TypeError *)
add_djump_address(pattern, name) ==
    /\ call' = [op |-> "add_djump_address", pattern |-> pattern,
                name |-> name]
    /\ IF djump_on
       THEN /\ djump_table' = table_set(djump_table, pattern, name)
            /\ ret' = "True"
       ELSE /\ djump_table' = djump_table
            /\ ret' = "TypeError"
    /\ log' = <<>>
    /\ UNCHANGED <<elements, djump_on, pulsar_vars, ncalls>>

---------------------------------------------------------------------------
(* class Pulsar: the channel registry *)

Id(ch, sub) == [ch |-> ch, sub |-> sub]

(* self.channels is a dict; the model keeps it as the list of its entries
   in the order the dict iterates them, each entry carrying its key as
   .name.  The iteration order of a dict is arbitrary. *)

ChanNames == {"a", "b"}

chan_defined(chs, c) == \E i \in 1..Len(chs) : chs[i].name = c
chan_of(chs, c) == chs[CHOOSE i \in 1..Len(chs) : chs[i].name = c]

(* the entries define_channel finds in use under the new id and warns
   about (logging.warning, "Channel ... already in use, will overwrite") *)
doubles(chs, id) == { i \in 1..Len(chs) : chs[i].id = id }

without_doubles_kept(chs, id) == chs

(* the registry after define_channel's two loops that delete every entry
   whose id is the new id *)
RECURSIVE without_doubles(_, _)
without_doubles(chs, id) ==
    IF chs = <<>> THEN <<>>
    ELSE IF Head(chs).id = id
         THEN without_doubles(Tail(chs), id)
         ELSE <<Head(chs)>> \o without_doubles(Tail(chs), id)

(* self.channels[name] = {...}: an existing key keeps its place, a new key
   lands at place at (anywhere in the iteration order) *)
dict_set(chs, entry, at) ==
    IF chan_defined(chs, entry.name)
    THEN [i \in 1..Len(chs) |->
             IF chs[i].name = entry.name THEN entry ELSE chs[i]]
    ELSE list_insert(chs, at, entry)

(* the registry define_channel leaves behind *)
defined(chs, id, name, type, high, low, active, at) ==
    dict_set(without_doubles(chs, id),
             [name |-> name, id |-> id, type |-> type,
              high |-> high, low |-> low, active |-> active],
             at)

define_channel(id, name, type, high, low, active, at) ==
    /\ call' = [op |-> "define_channel", name |-> name, id |-> id]
    /\ channels' = defined(channels, id, name, type, high, low, active, at)
    /\ ret' = "None"
    /\ log' = IF doubles(channels, id) = {} THEN <<>>
              ELSE << <<"logging.warning", id>> >>
    /\ UNCHANGED <<seq_vars, AWG_type, AWG_sequence_cfg, AWG, ncalls>>

Subs == <<"analog", "marker1", "marker2">>

(* get_channel_names_by_id(id): for each sub-channel of physical channel
   ch the name of the channel bound to it, None ("") when none is; a later
   entry with the same id overwrites an earlier one *)
RECURSIVE name_bound(_, _, _)
name_bound(chs, ch, sub) ==
    IF chs = <<>> THEN ""
    ELSE LET c == chs[Len(chs)]
         IN  IF c.id = [ch |-> ch, sub |-> sub]
             THEN c.name
             ELSE name_bound(SubSeq(chs, 1, Len(chs) - 1), ch, sub)

get_channel_names_by_id(chs, ch) ==
    [sub \in {"analog", "marker1", "marker2"} |-> name_bound(chs, ch, sub)]

(* get_used_channel_ids: the id[:3] of every active channel, each once, in
   iteration order *)
RECURSIVE get_used_channel_ids(_)
get_used_channel_ids(chs) ==
    IF chs = <<>> THEN <<>>
    ELSE LET prev == get_used_channel_ids(SubSeq(chs, 1, Len(chs) - 1))
             c == chs[Len(chs)]
         IN  IF c.active /\ ~list_has(prev, c.id.ch)
             THEN Append(prev, c.id.ch)
             ELSE prev

(* get_subchannels(id): the three ids of the physical channel of id *)
get_subchannels(id) ==
    << Id(id.ch, "analog"), Id(id.ch, "marker1"), Id(id.ch, "marker2") >>

RECURSIVE get_used_subchannel_ids_inactive_too(_, _)
get_used_subchannel_ids_inactive_too(chs, all_subchannels) ==
    IF chs = <<>> THEN <<>>
    ELSE LET prev == get_used_subchannel_ids_inactive_too(
                         SubSeq(chs, 1, Len(chs) - 1), all_subchannels)
             c == chs[Len(chs)]
         IN  IF ~list_has(prev, c.id)
             THEN IF all_subchannels THEN prev \o get_subchannels(c.id)
                  ELSE Append(prev, c.id)
             ELSE prev

(* get_used_subchannel_ids: for every active channel whose id is not yet
   in the list, the three ids of its physical channel (all_subchannels) or
   its own id *)
RECURSIVE get_used_subchannel_ids(_, _)
get_used_subchannel_ids(chs, all_subchannels) ==
    IF chs = <<>> THEN <<>>
    ELSE LET prev == get_used_subchannel_ids(SubSeq(chs, 1, Len(chs) - 1),
                         all_subchannels)
             c == chs[Len(chs)]
         IN  IF c.active /\ ~list_has(prev, c.id)
             THEN IF all_subchannels THEN prev \o get_subchannels(c.id)
                  ELSE Append(prev, c.id)
             ELSE prev

(* the channels argument of upload/program_*: [all |-> TRUE] for 'all',
   else the list of channel names in .names *)
AllChannels == [all |-> TRUE, names |-> <<>>]
ChannelList(names) == [all |-> FALSE, names |-> names]

(* self.channels[c] raises KeyError for a name that is not registered *)
names_registered(chs, names) ==
    \A i \in 1..Len(names) : chan_defined(chs, names[i])

(* "determine which channels are involved in the sequence": the chan_ids
   of program_sequence and of the second half of program_awg *)
RECURSIVE ids_of_names(_, _)
ids_of_names(chs, names) ==
    IF names = <<>> THEN <<>>
    ELSE LET prev == ids_of_names(chs, SubSeq(names, 1, Len(names) - 1))
             ch == chan_of(chs, names[Len(names)]).id.ch
         IN  IF list_has(prev, ch) THEN prev ELSE Append(prev, ch)

involved_chan_ids(chs, chans) ==
    IF chans.all THEN get_used_channel_ids(chs)
    ELSE ids_of_names(chs, chans.names)

---------------------------------------------------------------------------
(* Device transactions.  A transaction is a tuple: the driver method that
   is called, then its arguments.  getattr(self.AWG, 'set_%s_status' % ch)
   (v) is <<"set_status", ch, v>>, and likewise set_low, set_high,
   set_amplitude and set_offset with the full channel id. *)

RECURSIVE Flatten(_)
Flatten(ss) == IF ss = <<>> THEN <<>> ELSE Head(ss) \o Flatten(Tail(ss))

(* Pulsar.channel_ids, as written in the class body: ch3 twice, no ch4 *)
channel_ids ==
    << Id(1, "analog"), Id(1, "marker1"), Id(1, "marker2"),
       Id(2, "analog"), Id(2, "marker1"), Id(2, "marker2"),
       Id(3, "analog"), Id(3, "marker1"), Id(3, "marker2"),
       Id(3, "analog"), Id(3, "marker1"), Id(3, "marker2") >>

(* (high + low)/2. ; the bounds used in the model have an even sum *)
half(x) == x \div 2

setup_channels(chs, output, reset_unused) ==
    [i \in 1..Len(channel_ids) |-> <<"set_status", channel_ids[i].ch, "off">>]
    \o (IF reset_unused
        THEN Flatten([i \in 1..Len(channel_ids) |->
                 LET n == channel_ids[i]
                 IN  IF n.sub /= "analog"
                     THEN << <<"set_low", n, 0>>, <<"set_high", n, 1>> >>
                     ELSE << <<"set_amplitude", n, 2>>,
                             <<"set_offset", n, 0>> >>])
        ELSE <<>>)
    \o Flatten([i \in 1..Len(chs) |->
           LET c == chs[i]
               n == c.id
           IN  (IF c.type = "analog"
                THEN << <<"set_amplitude", n, c.high - c.low>>,
                        <<"set_offset", n, half(c.high + c.low)>> >>
                ELSE IF c.type = "marker"
                THEN << <<"set_low", n, c.low>>, <<"set_high", n, c.high>> >>
                ELSE <<>>)
               \o (IF output /\ c.active
                   THEN << <<"set_status", n.ch, "on">> >>
                   ELSE <<>>)])

activates_unfiltered(chs, chans, ch) ==
    LET names == get_channel_names_by_id(chs, ch)
    IN  \E sub \in DOMAIN names :
            /\ names[sub] /= ""
            /\ chan_of(chs, names[sub]).active

(* activate_channels: whether physical channel ch gets its output on *)
activates(chs, chans, ch) ==
    LET names == get_channel_names_by_id(chs, ch)
    IN  \E sub \in DOMAIN names :
            /\ names[sub] /= ""
            /\ chans.all \/ list_has(chans.names, names[sub])
            /\ chan_of(chs, names[sub]).active

activate_channels(chs, chans) ==
    LET ids == get_used_channel_ids(chs)
    IN  Flatten([i \in 1..Len(ids) |->
            IF activates(chs, chans, ids[i])
            THEN << <<"set_status", ids[i], "on">> >>
            ELSE <<>>])

(* the waveform name  elt['wfname'] + '_%s' % id *)
wf_name(wfname, id) == <<wfname, id>>

---------------------------------------------------------------------------
(* The sequencer of the device (the AWG driver is outside pulsar.py).  The
   device holds a sequence of elements, each with a goto state and target,
   an event jump type and target and a trigger-wait flag.  set_sq_length(n)
   keeps the first n elements it has and adds blank ones up to n, so
   set_sq_length(0) clears every element. *)

BlankElement ==
    [goto_state |-> "0", goto_target_index |-> 0, event_jump_type |-> "OFF",
     event_jump_target_index |-> 0, trigger_wait |-> 0]

PoweredOn == [sq |-> <<>>]

set_sq_length(awg, n) ==
    [sq |-> IF n <= Len(awg.sq) THEN SubSeq(awg.sq, 1, n)
            ELSE awg.sq \o [i \in 1..(n - Len(awg.sq)) |-> BlankElement]]

(* the transactions that change the elements of the device's sequence *)
SequencerOp(t) ==
    t[1] \in { "set_sq_length", "set_sqel_goto_state",
               "set_sqel_goto_target_index", "set_sqel_event_jump_type",
               "set_sqel_event_jump_target_index", "set_sqel_trigger_wait" }

(* one such transaction t; one that addresses an index the sequence does
   not have leaves it as it is *)
awg_do(awg, t) ==
    IF t[1] = "set_sq_length" THEN set_sq_length(awg, t[2])
    ELSE IF t[2] \notin 1..Len(awg.sq) THEN awg
    ELSE IF t[1] = "set_sqel_goto_state"
    THEN [sq |-> [awg.sq EXCEPT ![t[2]].goto_state = t[3]]]
    ELSE IF t[1] = "set_sqel_goto_target_index"
    THEN [sq |-> [awg.sq EXCEPT ![t[2]].goto_target_index = t[3]]]
    ELSE IF t[1] = "set_sqel_event_jump_type"
    THEN [sq |-> [awg.sq EXCEPT ![t[2]].event_jump_type = t[3]]]
    ELSE IF t[1] = "set_sqel_event_jump_target_index"
    THEN [sq |-> [awg.sq EXCEPT ![t[2]].event_jump_target_index = t[3]]]
    ELSE [sq |-> [awg.sq EXCEPT ![t[2]].trigger_wait = t[3]]]

(* the device after the transactions l, in order *)
RECURSIVE awg_run(_, _)
awg_run(awg, l) ==
    IF l = <<>> THEN awg
    ELSE awg_do(awg_run(awg, SubSeq(l, 1, Len(l) - 1)), l[Len(l)])

awg_after(awg, l) == awg_run(awg, SelectSeq(l, SequencerOp))

(* load_awg_file: the device takes the sequence of the file *)
awg_loaded(f) ==
    [sq |-> [i \in 1..Len(f.nrep_l) |->
               [goto_state |-> IF f.goto_l[i] = 0 THEN "0" ELSE "1",
                goto_target_index |-> f.goto_l[i],
                event_jump_type |->
                    IF f.logic_jump_l[i] = 0 THEN "OFF" ELSE "IND",
                event_jump_target_index |-> f.logic_jump_l[i],
                trigger_wait |-> f.wait_l[i]]]]

---------------------------------------------------------------------------
(* Pulsar.program_sequence (the incremental strategy).  The helpers give
   the transactions issued by a stretch of the method and whether it ran
   through (ok) or raised. *)

Step(l, ok) == [log |-> l, ok |-> ok]

(* a branch target: nothing for None; for goto the state is switched on
   before element_index is evaluated, so it is issued even if the lookup
   raises ValueError *)
sqel_goto(elts, idx, target) ==
    IF target = None THEN Step(<<>>, TRUE)
    ELSE IF index_resolves(elts, target)
    THEN Step(<< <<"set_sqel_goto_state", idx, "1">>,
                 <<"set_sqel_goto_target_index", idx,
                   element_index(elts, target)>> >>, TRUE)
    ELSE Step(<< <<"set_sqel_goto_state", idx, "1">> >>, FALSE)

sqel_jump(elts, idx, target) ==
    IF target = None THEN Step(<<>>, TRUE)
    ELSE IF index_resolves(elts, target)
    THEN Step(<< <<"set_sqel_event_jump_type", idx, "IND">>,
                 <<"set_sqel_event_jump_target_index", idx,
                   element_index(elts, target)>> >>, TRUE)
    ELSE Step(<< <<"set_sqel_event_jump_type", idx, "IND">> >>, FALSE)

(* the body of "for i,elt in enumerate(sequence.elements)" for idx = i+1 *)
sqel_program_from_zero(elts, idx, chan_ids) ==
    LET elt == elts[idx]
        wfs == [k \in 1..Len(chan_ids) |->
                   <<"set_sqel_waveform", wf_name(elt.wfname, chan_ids[k]),
                     chan_ids[k], idx - 1>>]
        cnt == << <<"set_sqel_loopcnt_to_inf", idx, FALSE>>,
                  <<"set_sqel_loopcnt", elt.repetitions, idx>> >>
        g == sqel_goto(elts, idx, elt.goto_target)
        j == sqel_jump(elts, idx, elt.jump_target)
        t == IF elt.trigger_wait
             THEN << <<"set_sqel_trigger_wait", idx, 1>> >> ELSE <<>>
    IN  IF ~g.ok THEN Step(wfs \o cnt \o g.log, FALSE)
        ELSE IF ~j.ok THEN Step(wfs \o cnt \o g.log \o j.log, FALSE)
        ELSE Step(wfs \o cnt \o g.log \o j.log \o t, TRUE)

sqel_program(elts, idx, chan_ids) ==
    LET elt == elts[idx]
        wfs == [k \in 1..Len(chan_ids) |->
                   <<"set_sqel_waveform", wf_name(elt.wfname, chan_ids[k]),
                     chan_ids[k], idx>>]
        cnt == << <<"set_sqel_loopcnt_to_inf", idx, FALSE>>,
                  <<"set_sqel_loopcnt", elt.repetitions, idx>> >>
        g == sqel_goto(elts, idx, elt.goto_target)
        j == sqel_jump(elts, idx, elt.jump_target)
        t == IF elt.trigger_wait
             THEN << <<"set_sqel_trigger_wait", idx, 1>> >> ELSE <<>>
    IN  IF ~g.ok THEN Step(wfs \o cnt \o g.log, FALSE)
        ELSE IF ~j.ok THEN Step(wfs \o cnt \o g.log \o j.log, FALSE)
        ELSE Step(wfs \o cnt \o g.log \o j.log \o t, TRUE)

(* the loop over the first n elements; it stops at the first that raises *)
RECURSIVE sqel_programs(_, _, _)
sqel_programs(elts, n, chan_ids) ==
    IF n = 0 THEN Step(<<>>, TRUE)
    ELSE LET prev == sqel_programs(elts, n - 1, chan_ids)
             this == sqel_program(elts, n, chan_ids)
         IN  IF ~prev.ok THEN prev
             ELSE Step(prev.log \o this.log, this.ok)

(* "if loop:" after the element loop.  idx is the loop variable left over
   from the element loop: the last index, unbound for an empty Sequence *)
seq_loop_override_unless_goto(elts, loop) ==
    IF ~loop THEN Step(<<>>, TRUE)
    ELSE IF Len(elts) = 0 THEN Step(<<>>, FALSE)
    ELSE IF elts[Len(elts)].goto_target /= None THEN Step(<<>>, TRUE)
    ELSE Step(<< <<"set_sqel_goto_state", Len(elts), "1">>,
                 <<"set_sqel_goto_target_index", Len(elts), 1>> >>, TRUE)

seq_loop_override(elts, loop) ==
    IF ~loop THEN Step(<<>>, TRUE)
    ELSE IF Len(elts) = 0 THEN Step(<<>>, FALSE)
    ELSE Step(<< <<"set_sqel_goto_state", Len(elts), "1">>,
                 <<"set_sqel_goto_target_index", Len(elts), 1>> >>, TRUE)

(* the dynamic jump table is a dict; its keys are taken in ascending order *)
RECURSIVE sorted_keys(_)
sorted_keys(S) ==
    IF S = {} THEN <<>>
    ELSE LET m == CHOOSE x \in S : \A y \in S : x <= y
         IN  <<m>> \o sorted_keys(S \ {m})

supports_djump_always(type) == TRUE

supports_djump_inverted(type) == type /= "opt09"

supports_djump(type) == type = "opt09"

(* "for i in sequence.djump_table.keys()" of program_sequence over the
   first n keys *)
RECURSIVE seq_djump_writes(_, _, _, _)
seq_djump_writes(elts, table, keys, n) ==
    IF n = 0 THEN Step(<<>>, TRUE)
    ELSE LET prev == seq_djump_writes(elts, table, keys, n - 1)
             a == keys[n]
         IN  IF ~prev.ok THEN prev
             ELSE IF index_resolves(elts, table[a])
             THEN Step(Append(prev.log,
                         <<"set_djump_def", a, element_index(elts, table[a])>>),
                       TRUE)
             ELSE Step(prev.log, FALSE)

(* "setting jump modes and loading the djump table" of program_sequence,
   after the unsupported-hardware test *)
seq_jump_mode(elts, dj_on, table, type) ==
    IF ~supports_djump(type) THEN Step(<<>>, TRUE)
    ELSE IF dj_on
    THEN LET keys == sorted_keys(DOMAIN table)
             w == seq_djump_writes(elts, table, keys, Len(keys))
         IN  Step(<< <<"set_event_jump_mode", "DJUM">> >>
                  \o [i \in 1..DJUMP_SLOTS |-> <<"set_djump_def", i - 1, 0>>]
                  \o w.log, w.ok)
    ELSE Step(<< <<"set_event_jump_mode", "EJUM">> >>, TRUE)

DJUMP_ERROR == "Exception: The AWG configured does not support dynamic jumping"

(* the whole of program_sequence: its transactions and its result *)
program_sequence_run_activating_first(elts, dj_on, table, chs, type, cfg, chans, loop, start) ==
    IF ~chans.all /\ ~names_registered(chs, chans.names)
    THEN [log |-> <<>>, ret |-> "KeyError"]
    ELSE
    LET chan_ids == involved_chan_ids(chs, chans)
        prep == << <<"stop">>, <<"set_runmode", "SEQ">>,
                   <<"set_event_jump_timing",
                     IF cfg.JUMP_TIMING = 1 THEN "SYNC" ELSE "ASYNC">> >>
                \o setup_channels(chs, FALSE, TRUE)
                \o << <<"set_sq_length", 0>>,
                      <<"set_sq_length", element_count(elts)>> >>
                \o activate_channels(chs, chans)
        els == sqel_programs(elts, Len(elts), chan_ids)
        lp == seq_loop_override(elts, loop)
        jm == seq_jump_mode(elts, dj_on, table, type)
    IN  IF ~els.ok THEN [log |-> prep \o els.log, ret |-> "ValueError"]
        ELSE IF ~lp.ok
        THEN [log |-> prep \o els.log, ret |-> "UnboundLocalError"]
        ELSE IF dj_on /\ ~supports_djump(type)
        THEN [log |-> prep \o els.log \o lp.log, ret |-> DJUMP_ERROR]
        ELSE IF ~jm.ok
        THEN [log |-> prep \o els.log \o lp.log \o jm.log,
              ret |-> "ValueError"]
        ELSE [log |-> prep \o els.log \o lp.log \o jm.log
                      \o (IF start THEN << <<"start">> >> ELSE <<>>),
              ret |-> "None"]

program_sequence_run_without_clear(elts, dj_on, table, chs, type, cfg, chans, loop, start) ==
    IF ~chans.all /\ ~names_registered(chs, chans.names)
    THEN [log |-> <<>>, ret |-> "KeyError"]
    ELSE
    LET chan_ids == involved_chan_ids(chs, chans)
        prep == << <<"stop">>, <<"set_runmode", "SEQ">>,
                   <<"set_event_jump_timing",
                     IF cfg.JUMP_TIMING = 1 THEN "SYNC" ELSE "ASYNC">> >>
                \o setup_channels(chs, FALSE, TRUE)
                \o << <<"set_sq_length", element_count(elts)>> >>
        els == sqel_programs(elts, Len(elts), chan_ids)
        lp == seq_loop_override(elts, loop)
        act == activate_channels(chs, chans)
        jm == seq_jump_mode(elts, dj_on, table, type)
    IN  IF ~els.ok THEN [log |-> prep \o els.log, ret |-> "ValueError"]
        ELSE IF ~lp.ok
        THEN [log |-> prep \o els.log, ret |-> "UnboundLocalError"]
        ELSE IF dj_on /\ ~supports_djump(type)
        THEN [log |-> prep \o els.log \o lp.log \o act, ret |-> DJUMP_ERROR]
        ELSE IF ~jm.ok
        THEN [log |-> prep \o els.log \o lp.log \o act \o jm.log,
              ret |-> "ValueError"]
        ELSE [log |-> prep \o els.log \o lp.log \o act \o jm.log
                      \o (IF start THEN << <<"start">> >> ELSE <<>>),
              ret |-> "None"]

program_sequence_run(elts, dj_on, table, chs, type, cfg, chans, loop, start) ==
    IF ~chans.all /\ ~names_registered(chs, chans.names)
    THEN [log |-> <<>>, ret |-> "KeyError"]
    ELSE
    LET chan_ids == involved_chan_ids(chs, chans)
        prep == << <<"stop">>, <<"set_runmode", "SEQ">>,
                   <<"set_event_jump_timing",
                     IF cfg.JUMP_TIMING = 1 THEN "SYNC" ELSE "ASYNC">> >>
                \o setup_channels(chs, FALSE, TRUE)
                \o << <<"set_sq_length", 0>>,
                      <<"set_sq_length", element_count(elts)>> >>
        els == sqel_programs(elts, Len(elts), chan_ids)
        lp == seq_loop_override(elts, loop)
        act == activate_channels(chs, chans)
        jm == seq_jump_mode(elts, dj_on, table, type)
    IN  IF ~els.ok THEN [log |-> prep \o els.log, ret |-> "ValueError"]
        ELSE IF ~lp.ok
        THEN [log |-> prep \o els.log, ret |-> "UnboundLocalError"]
        ELSE IF dj_on /\ ~supports_djump(type)
        THEN [log |-> prep \o els.log \o lp.log \o act, ret |-> DJUMP_ERROR]
        ELSE IF ~jm.ok
        THEN [log |-> prep \o els.log \o lp.log \o act \o jm.log,
              ret |-> "ValueError"]
        ELSE [log |-> prep \o els.log \o lp.log \o act \o jm.log
                      \o (IF start THEN << <<"start">> >> ELSE <<>>),
              ret |-> "None"]

program_sequence(chans, loop, start) ==
    LET r == program_sequence_run(elements, djump_on, djump_table, channels,
                 AWG_type, AWG_sequence_cfg, chans, loop, start)
    IN  /\ call' = [op |-> "program_sequence", channels |-> chans,
                    loop |-> loop, start |-> start]
        /\ log' = r.log
        /\ ret' = r.ret
        /\ AWG' = awg_after(AWG, r.log)
        /\ ncalls' = ncalls + 1
        /\ UNCHANGED <<seq_vars, channels, AWG_type, AWG_sequence_cfg>>

---------------------------------------------------------------------------
(* Pulse Elements (the element layer is outside pulsar.py): an Element has
   a name, a sample count, and samples for some logical channels *)

Element(n) ==
    IF n = 1
    THEN [name |-> n, samples |-> 2, wfs |-> [c \in {"a"} |-> <<1, 1>>]]
    ELSE [name |-> n, samples |-> 3,
          wfs |-> [c \in {"a", "b"} |-> <<0, 1, 1>>]]

zeros(n) == [i \in 1..n |-> 0]

(* lines 410-423 (and 248-260): the three arrays of physical channel ch *)
chan_wfs_unfilled(chs, element, ch) ==
    LET grp == get_channel_names_by_id(chs, ch)
    IN  [sub \in DOMAIN grp |->
            IF grp[sub] /= "" /\ grp[sub] \in DOMAIN element.wfs
            THEN element.wfs[grp[sub]]
            ELSE <<>>]

chan_wfs(chs, element, ch) ==
    LET grp == get_channel_names_by_id(chs, ch)
    IN  [sub \in DOMAIN grp |->
            IF grp[sub] /= "" /\ grp[sub] \in DOMAIN element.wfs
            THEN element.wfs[grp[sub]]
            ELSE zeros(element.samples)]

(* AWG.pack_waveform(analog, marker1, marker2): the blob is the triple *)
pack_waveform(w) == <<w["analog"], w["marker1"], w["marker2"]>>

wants_upload_unfiltered(chs, chans, ch) == TRUE

(* "determine if we actually want to upload this channel" *)
wants_upload(chs, chans, ch) ==
    \/ chans.all
    \/ \E i \in 1..Len(chans.names) : chan_of(chs, chans.names[i]).id.ch = ch

(* the packed_waveforms dict of program_awg; a later Element of the same
   name overwrites an earlier one *)
packed_waveforms(chs, elems, chans) ==
    LET used == get_used_channel_ids(chs)
        keys == { wf_name(elems[i], used[k]) :
                    <<i, k>> \in { x \in (1..Len(elems)) \X (1..Len(used)) :
                                     wants_upload(chs, chans, used[x[2]]) } }
    IN  [w \in keys |->
            LET i == CHOOSE i \in 1..Len(elems) :
                        /\ elems[i] = w[1]
                        /\ \A j \in (i + 1)..Len(elems) : elems[j] /= w[1]
            IN  pack_waveform(chan_wfs(chs, Element(elems[i]), w[2]))]

(* Pulsar.upload_element: for every used physical channel that passes the
   channels filter, send_waveform with the three arrays and the name, then
   import_waveform_file.  self.channels[c] raises KeyError for a name that
   is not registered, on the first used channel. *)
upload_element(chs, element, chans) ==
    LET used == get_used_channel_ids(chs)
    IN  IF ~chans.all /\ ~names_registered(chs, chans.names) /\ Len(used) > 0
        THEN Step(<<>>, FALSE)
        ELSE Step(Flatten([k \in 1..Len(used) |->
                 IF wants_upload(chs, chans, used[k])
                 THEN LET w == chan_wfs(chs, element, used[k])
                          wfname == wf_name(element.name, used[k])
                      IN  << <<"send_waveform", w["analog"], w["marker1"],
                               w["marker2"], wfname>>,
                             <<"import_waveform_file", wfname, wfname,
                               "wfm">> >>
                 ELSE <<>>]), TRUE)

(* the loop of Pulsar.upload over the first n Elements; it stops at the
   first upload_element that raises *)
RECURSIVE uploads(_, _, _, _)
uploads(chs, elems, n, chans) ==
    IF n = 0 THEN Step(<<>>, TRUE)
    ELSE LET prev == uploads(chs, elems, n - 1, chans)
             this == upload_element(chs, Element(elems[n]), chans)
         IN  IF ~prev.ok THEN prev
             ELSE Step(prev.log \o this.log, this.ok)

upload(elems, chans) ==
    LET r == uploads(channels, elems, Len(elems), chans)
    IN  /\ call' = [op |-> "upload", elements |-> elems, channels |-> chans]
        /\ log' = r.log
        /\ ret' = IF r.ok THEN "None" ELSE "KeyError"
        /\ ncalls' = ncalls + 1
        /\ UNCHANGED <<seq_vars, pulsar_vars>>

(* a dict as a function; d[k] = v *)
dict_put(d, k, v) ==
    [x \in (DOMAIN d) \cup {k} |-> IF x = k THEN v ELSE d[x]]

RECURSIVE dict_puts(_, _)
dict_puts(d, kvs) ==
    IF kvs = <<>> THEN d
    ELSE dict_puts(dict_put(d, Head(kvs)[1], Head(kvs)[2]), Tail(kvs))

(* n[-1] and n[2] of a channel id string *)
last_char(id) ==
    IF id.sub = "analog" THEN id.ch ELSE IF id.sub = "marker1" THEN 1 ELSE 2
third_char(id) == id.ch

(* get_awg_channel_cfg: the key 'ANALOG_METHOD_%s' % k is the pair
   <<"ANALOG_METHOD", k>>, 'MARKER%s_LOW_%s' % (m, k) is <<"MARKER_LOW", m,
   k>>; the skew is left out *)
get_awg_channel_cfg(chs) ==
    dict_puts([k \in {} |-> 0],
        Flatten([i \in 1..Len(chs) |->
            LET c == chs[i]
                n == c.id
            IN  (IF c.type = "analog"
                 THEN << <<<<"ANALOG_METHOD", last_char(n)>>, 1>>,
                         <<<<"ANALOG_AMPLITUDE", last_char(n)>>,
                           c.high - c.low>>,
                         <<<<"ANALOG_OFFSET", last_char(n)>>,
                           half(c.high + c.low)>> >>
                 ELSE IF c.type = "marker"
                 THEN << <<<<"MARKER1_METHOD", third_char(n)>>, 2>>,
                         <<<<"MARKER2_METHOD", third_char(n)>>, 2>>,
                         <<<<"MARKER_LOW", last_char(n), third_char(n)>>,
                           c.low>>,
                         <<<<"MARKER_HIGH", last_char(n), third_char(n)>>,
                           c.high>> >>
                 ELSE <<>>)
                \o << <<<<"CHANNEL_STATE", last_char(n)>>,
                        IF c.active THEN 1 ELSE 0>> >>]))

---------------------------------------------------------------------------
(* Pulsar.program_awg (the batch strategy) *)

(* "if sequence.element_count() > 8000": the batch strategy gives up *)
over_limit_inclusive(n) == n >= ELEMENT_LIMIT

over_limit(n) == n > ELEMENT_LIMIT

(* wfname_l: one list per involved channel id, one name per element *)
wfname_lists(elts, chan_ids) ==
    [k \in 1..Len(chan_ids) |->
        [i \in 1..Len(elts) |-> wf_name(elts[i].wfname, chan_ids[k])]]

(* the entry appended to goto_l / logic_jump_l for a target *)
target_entry_from_zero(elts, target) ==
    IF target /= None THEN list_index(element_names(elts), target) ELSE 0

target_entry(elts, target) ==
    IF target /= None THEN element_index(elts, target) ELSE 0

targets_resolve(elts) ==
    \A i \in 1..Len(elts) :
        /\ elts[i].goto_target /= None
              => index_resolves(elts, elts[i].goto_target)
        /\ elts[i].jump_target /= None
              => index_resolves(elts, elts[i].jump_target)

nrep_list(elts) == [i \in 1..Len(elts) |-> elts[i].repetitions]
goto_list_from_jump(elts) == [i \in 1..Len(elts) |-> target_entry(elts, elts[i].jump_target)]

goto_list(elts) == [i \in 1..Len(elts) |-> target_entry(elts, elts[i].goto_target)]
jump_list(elts) == [i \in 1..Len(elts) |-> target_entry(elts, elts[i].jump_target)]
wait_list(elts) == [i \in 1..Len(elts) |-> IF elts[i].trigger_wait THEN 1 ELSE 0]

(* "if loop: goto_l[-1]=1" on a non-empty list (IndexError on an empty one
   is decided by the caller) *)
awg_loop_override(goto_l, loop) ==
    IF loop THEN [goto_l EXCEPT ![Len(goto_l)] = 1] ELSE goto_l

(* lines 504-507: awg_djump_table; slot of address a is place a + 1.  ok is
   FALSE when a lookup raises ValueError or an address is outside the 16
   slots (IndexError) *)
djump_addresses_fit(table) == \A a \in DOMAIN table : a < DJUMP_SLOTS
djump_names_resolve(elts, table) ==
    \A a \in DOMAIN table : index_resolves(elts, table[a])

awg_djump_table_shifted(elts, table) ==
    [s \in 1..DJUMP_SLOTS |->
        IF s \in DOMAIN table
        THEN element_index(elts, table[s]) ELSE 0]

awg_djump_table(elts, table) ==
    [s \in 1..DJUMP_SLOTS |->
        IF (s - 1) \in DOMAIN table
        THEN element_index(elts, table[s - 1]) ELSE 0]

(* the first key of the table at which the loop of lines 505-507 raises *)
first_bad_key(elts, table) ==
    CHOOSE a \in DOMAIN table :
        /\ ~index_resolves(elts, table[a]) \/ a >= DJUMP_SLOTS
        /\ \A b \in DOMAIN table :
              b < a => index_resolves(elts, table[b]) /\ b < DJUMP_SLOTS

(* check_sequence_consistency: "ok", or the exception it raises.  The
   length test reads wfname_l[0..3], so fewer than four lists end it with
   IndexError.  A missing name is reported with its 1-based position el
   and the 1-based number ch of its list. *)
lengths_agree(wfname_l, nrep_l, wait_l, goto_l, logic_jump_l) ==
    /\ Len(wfname_l[1]) = Len(wfname_l[2])
    /\ Len(wfname_l[2]) = Len(wfname_l[3])
    /\ Len(wfname_l[3]) = Len(wfname_l[4])
    /\ Len(wfname_l[4]) = Len(nrep_l)
    /\ Len(nrep_l) = Len(wait_l)
    /\ Len(wait_l) = Len(goto_l)
    /\ Len(goto_l) = Len(logic_jump_l)

missing_names(packed, wfname_l) ==
    { x \in UNION { {<<ch, el>> : el \in 1..Len(wfname_l[ch])} :
                     ch \in 1..Len(wfname_l) } :
        wfname_l[x[1]][x[2]] \notin DOMAIN packed }

check_lengths_only(packed, wfname_l, nrep_l, wait_l, goto_l, logic_jump_l) ==
    IF Len(wfname_l) < 4 THEN [kind |-> "IndexError"]
    ELSE IF ~lengths_agree(wfname_l, nrep_l, wait_l, goto_l, logic_jump_l)
    THEN [kind |-> "Exception: unequal length"]
    ELSE [kind |-> "ok"]

check_sequence_consistency(packed, wfname_l, nrep_l, wait_l, goto_l, logic_jump_l) ==
    IF Len(wfname_l) < 4 THEN [kind |-> "IndexError"]
    ELSE IF ~lengths_agree(wfname_l, nrep_l, wait_l, goto_l, logic_jump_l)
    THEN [kind |-> "Exception: unequal length"]
    ELSE IF missing_names(packed, wfname_l) = {} THEN [kind |-> "ok"]
    ELSE LET m == missing_names(packed, wfname_l)
             x == CHOOSE x \in m : \A y \in m :
                      x[1] < y[1] \/ (x[1] = y[1] /\ x[2] <= y[2])
         IN  [kind |-> "Exception: does not exist in waveform dictionary",
              wfname |-> wfname_l[x[1]][x[2]], el |-> x[2], ch |-> x[1]]

AWG_DJUMP_ERROR ==
    "Exception: pulsar: The AWG configured does not support dynamic jumping"

(* the whole of program_awg: its transactions, its result, and the class
   attribute AWG_sequence_cfg it leaves behind.  Without any Element the
   timer _t0 of the packing loop is never set and line 426 raises
   UnboundLocalError. *)
program_awg_run(elts, dj_on, table, chs, type, cfg, elems, chans, loop, debug) ==
    LET used == get_used_channel_ids(chs)
        known == chans.all \/ names_registered(chs, chans.names)
        Out(l, r, c) == [log |-> l, ret |-> r, cfg |-> c]
    IN
    IF ~known /\ Len(elems) > 0 /\ Len(used) > 0
    THEN Out(<<>>, "KeyError", cfg)
    ELSE IF Len(elems) = 0 THEN Out(<<>>, "UnboundLocalError", cfg)
    ELSE IF over_limit(element_count(elts)) THEN Out(<<>>, "None", cfg)
    ELSE IF ~known THEN Out(<<>>, "KeyError", cfg)
    ELSE IF ~targets_resolve(elts) THEN Out(<<>>, "ValueError", cfg)
    ELSE IF loop /\ Len(elts) = 0 THEN Out(<<>>, "IndexError", cfg)
    ELSE IF dj_on /\ ~supports_djump(type)
    THEN Out(<<>>, AWG_DJUMP_ERROR, cfg)
    ELSE
    LET packed == packed_waveforms(chs, elems, chans)
        chan_ids == involved_chan_ids(chs, chans)
        wfname_l == wfname_lists(elts, chan_ids)
        nrep_l == nrep_list(elts)
        wait_l == wait_list(elts)
        goto_l == awg_loop_override(goto_list(elts), loop)
        logic_jump_l == jump_list(elts)
        cfg1 == IF ~supports_djump(type) THEN cfg
                ELSE IF dj_on THEN [cfg EXCEPT !.EVENT_JUMP_MODE = 2]
                ELSE [cfg EXCEPT !.EVENT_JUMP_MODE = 1]
        table_ok == djump_addresses_fit(table)
                    /\ djump_names_resolve(elts, table)
        cfg2 == IF supports_djump(type) /\ dj_on
                THEN [cfg1 EXCEPT !.TABLE_JUMP_DEFINITION =
                                      awg_djump_table(elts, table)]
                ELSE cfg1
        chk == check_sequence_consistency(packed, wfname_l, nrep_l, wait_l,
                   goto_l, logic_jump_l)
        filename == <<"seq", "_FILE.AWG">>
        awg_file == [packed_waveforms |-> packed, wfname_l |-> wfname_l,
                     nrep_l |-> nrep_l, wait_l |-> wait_l,
                     goto_l |-> goto_l, logic_jump_l |-> logic_jump_l,
                     channel_cfg |-> get_awg_channel_cfg(chs),
                     sequence_cfg |-> cfg2]
    IN  IF supports_djump(type) /\ dj_on /\ ~table_ok
        THEN Out(<<>>,
                 IF index_resolves(elts, table[first_bad_key(elts, table)])
                 THEN "IndexError" ELSE "ValueError",
                 cfg1)
        ELSE IF debug /\ chk.kind /= "ok" THEN Out(<<>>, chk.kind, cfg2)
        ELSE Out(<< <<"generate_awg_file", awg_file>>,
                    <<"send_awg_file", filename, awg_file>>,
                    <<"load_awg_file", filename>> >>
                 \o activate_channels(chs, chans),
                 "None", cfg2)

program_awg_forcing_goto(elems, chans, loop, debug) ==
    LET r == program_awg_run(elements, djump_on, djump_table, channels,
                 AWG_type, AWG_sequence_cfg, elems, chans, loop, debug)
    IN  /\ call' = [op |-> "program_awg", elements |-> elems,
                    channels |-> chans, loop |-> loop, debug |-> debug]
        /\ log' = r.log
        /\ ret' = r.ret
        /\ AWG_sequence_cfg' = r.cfg
        /\ AWG' = IF Len(r.log) > 0 THEN awg_loaded(r.log[1][2]) ELSE AWG
        /\ ncalls' = ncalls + 1
        /\ elements' = IF loop /\ Len(elements) > 0
                       THEN [elements EXCEPT ![Len(elements)].goto_target =
                                                 elements[1].name]
                       ELSE elements
        /\ UNCHANGED <<djump_on, djump_table, channels, AWG_type>>

program_awg(elems, chans, loop, debug) ==
    LET r == program_awg_run(elements, djump_on, djump_table, channels,
                 AWG_type, AWG_sequence_cfg, elems, chans, loop, debug)
    IN  /\ call' = [op |-> "program_awg", elements |-> elems,
                    channels |-> chans, loop |-> loop, debug |-> debug]
        /\ log' = r.log
        /\ ret' = r.ret
        /\ AWG_sequence_cfg' = r.cfg
        /\ AWG' = IF Len(r.log) > 0 THEN awg_loaded(r.log[1][2]) ELSE AWG
        /\ ncalls' = ncalls + 1
        /\ UNCHANGED <<seq_vars, channels, AWG_type>>

---------------------------------------------------------------------------
(* The Sequence object as a state machine: Init is the state after
   construction, every method is an action *)

(* the device the Pulsar is configured for: AWG_type and the JUMP_TIMING
   entry the user puts into AWG_sequence_cfg; 0 stands for an absent
   EVENT_JUMP_MODE and <<>> for an absent TABLE_JUMP_DEFINITION *)
DeviceConfigs ==
    { [type |-> "regular", JUMP_TIMING |-> 1],
      [type |-> "opt09", JUMP_TIMING |-> 0] }

InitPulsar ==
    \E d \in DeviceConfigs :
        /\ AWG = PoweredOn
        /\ AWG_type = d.type
        /\ AWG_sequence_cfg = [JUMP_TIMING |-> d.JUMP_TIMING,
                               EVENT_JUMP_MODE |-> 0,
                               TABLE_JUMP_DEFINITION |-> <<>>]

InitCall ==
    /\ log = <<>>
    /\ call = [op |-> "__init__"]
    /\ ret = "None"
    /\ ncalls = 0

Init ==
    /\ elements = <<>>
    /\ djump_on = FALSE
    /\ djump_table = EmptyTable
    /\ channels = <<>>
    /\ InitPulsar
    /\ InitCall

SeqNames == 1..(NumNames + 1)
CanGrow(name) == Len(elements) < MaxLen + 1 \/ name_in_use(elements, name)

InsertElement ==
    \E name \in SeqNames, kw \in EltKw, pos \in PosArgs :
        /\ CanGrow(name)
        /\ insert_element(name, kw.wfname, pos, kw.repetitions,
               kw.goto_target, kw.jump_target, kw.trigger_wait)

AppendCall ==
    \E name \in SeqNames, kw \in EltKw :
        /\ CanGrow(name)
        /\ append(name, kw.wfname, kw)

AppendElement ==
    \E name \in SeqNames, kw \in EltKw, pos \in PosArgs :
        /\ CanGrow(name)
        /\ append_element(_make_element_spec(name, kw.wfname,
               kw.repetitions, kw.goto_target, kw.jump_target,
               kw.trigger_wait), pos)

SetDjump == \E state \in BOOLEAN : set_djump(state)

AddDjumpAddress ==
    \E pattern \in DjumpPatterns, name \in {1} :
        add_djump_address(pattern, name)

Next ==
    \/ InsertElement
    \/ AppendCall
    \/ AppendElement
    \/ SetDjump
    \/ AddDjumpAddress

Spec == Init /\ [][Next]_vars

---------------------------------------------------------------------------
(* The channel registry as a state machine: channels are registered with
   define_channel, in between the registry is queried and the outputs are
   switched on *)

RegNames == {"a", "b", "c"}
RegIds == { Id(1, "analog"), Id(1, "marker1"), Id(2, "analog"),
            Id(2, "marker1") }

DefineChannel ==
    \E id \in RegIds, name \in RegNames, active \in BOOLEAN,
       at \in 0..Len(channels) :
        IF id.sub = "analog"
        THEN define_channel(id, name, "analog", 1, -1, active, at)
        ELSE define_channel(id, name, "marker", 2, 0, active, at)

GetUsedSubchannelIds ==
    \E all_subchannels \in BOOLEAN :
        /\ call' = [op |-> "get_used_subchannel_ids",
                    all_subchannels |-> all_subchannels]
        /\ ret' = get_used_subchannel_ids(channels, all_subchannels)
        /\ log' = <<>>
        /\ UNCHANGED <<seq_vars, pulsar_vars, ncalls>>

GetUsedChannelIds ==
    /\ call' = [op |-> "get_used_channel_ids"]
    /\ ret' = get_used_channel_ids(channels)
    /\ log' = <<>>
    /\ UNCHANGED <<seq_vars, pulsar_vars, ncalls>>

(* the channels argument of activate_channels: 'all', or a list of names,
   registered or not *)
ActivateArgs ==
    { AllChannels, ChannelList(<<"a">>), ChannelList(<<"b", "c">>),
      ChannelList(<<"d">>) }

ActivateChannels ==
    \E chans \in ActivateArgs :
        /\ call' = [op |-> "activate_channels", channels |-> chans]
        /\ log' = activate_channels(channels, chans)
        /\ ret' = "None"
        /\ UNCHANGED <<seq_vars, pulsar_vars, ncalls>>

GetAwgChannelCfg ==
    /\ call' = [op |-> "get_awg_channel_cfg"]
    /\ ret' = get_awg_channel_cfg(channels)
    /\ log' = <<>>
    /\ UNCHANGED <<seq_vars, pulsar_vars, ncalls>>

NextReg ==
    \/ DefineChannel
    \/ GetUsedSubchannelIds
    \/ GetUsedChannelIds
    \/ ActivateChannels
    \/ GetAwgChannelCfg

SpecReg == Init /\ [][NextReg]_vars

---------------------------------------------------------------------------
(* Programming calls.  program_sequence and program_awg read the Sequence
   and the registry and change neither, so they are checked from every
   configuration the set-up methods can build within the bounds: the
   initial states of SpecProg are those configurations, built here with the
   operators of the set-up methods, and each behaviour makes one
   programming call. *)

(* Sequences built by at most n calls of append *)
RECURSIVE BuiltSequences(_)
BuiltSequences(n) ==
    IF n = 0 THEN {<<>>}
    ELSE LET prev == BuiltSequences(n - 1)
         IN  prev \cup
             { inserted(s, <<Len(s)>>,
                   _make_element_spec(name, kw.wfname, kw.repetitions,
                       kw.goto_target, kw.jump_target, kw.trigger_wait)) :
               <<s, name, kw>> \in
                   { x \in prev \X Names \X EltKw :
                       ~name_in_use(x[1], x[2]) } }

(* dynamic jump tables built by set_djump(True) and add_djump_address *)
RECURSIVE BuiltTables(_)
BuiltTables(n) ==
    IF n = 0 THEN {EmptyTable}
    ELSE LET prev == BuiltTables(n - 1)
         IN  prev \cup { table_set(t, pattern, 1) :
                           <<t, pattern>> \in prev \X DjumpPatterns }

(* what define_channel is called with: channel "a" sits on ch1, channel
   "b" on marker 1 of ch1 or on ch2, where it may be inactive *)
ChanSpecs ==
    { [name |-> "a", id |-> Id(1, "analog"), type |-> "analog",
       high |-> 1, low |-> -1, active |-> TRUE],
      [name |-> "b", id |-> Id(1, "marker1"), type |-> "marker",
       high |-> 2, low |-> 0, active |-> TRUE],
      [name |-> "b", id |-> Id(2, "analog"), type |-> "analog",
       high |-> 1, low |-> -1, active |-> TRUE],
      [name |-> "b", id |-> Id(2, "analog"), type |-> "analog",
       high |-> 1, low |-> -1, active |-> FALSE] }

(* registries built by at most n calls of define_channel *)
RECURSIVE BuiltRegistries(_)
BuiltRegistries(n) ==
    IF n = 0 THEN {<<>>}
    ELSE LET prev == BuiltRegistries(n - 1)
         IN  prev \cup
             { defined(x[1], x[2].id, x[2].name, x[2].type, x[2].high,
                       x[2].low, x[2].active, x[3]) :
               x \in { y \in prev \X ChanSpecs \X (0..1) :
                         y[3] <= Len(y[1]) } }

(* the registry of a set-up that uses all four outputs of the device *)
FourChannels ==
    LET def(chs, ch, name) ==
            defined(chs, Id(ch, "analog"), name, "analog", 1, -1, TRUE, Len(chs))
    IN  def(def(def(def(<<>>, 1, "a"), 2, "b"), 3, "c"), 4, "d")

(* the three-element example: A (1 repetition, waits for a trigger),
   B (5 repetitions), C (1 repetition, goes to A); A, B, C are 1, 2, 3 *)
ExampleSequence ==
    LET add(s, name, rep, goto, wait) ==
            inserted(s, <<Len(s)>>,
                _make_element_spec(name, 1, rep, goto, None, wait))
    IN  add(add(add(<<>>, 1, 1, None, TRUE), 2, 5, None, FALSE),
            3, 1, 1, FALSE)

InitProg ==
    /\ elements \in BuiltSequences(MaxLen) \cup {ExampleSequence}
    /\ djump_on \in BOOLEAN
    /\ djump_table \in (IF djump_on THEN BuiltTables(2) ELSE {EmptyTable})
    /\ channels \in BuiltRegistries(2) \cup {FourChannels}
    /\ InitPulsar
    /\ InitCall

(* the channels argument is 'all' or a list of registered channel names
   (one name, or both);
   program_awg is given no Element (it then raises at line 426 whatever the
   Sequence is), one, or two *)
ChannelArgs ==
    {AllChannels, ChannelList(<<"a", "b">>)}
        \cup { ChannelList(<<c>>) : c \in ChanNames }
ElementArgs == { <<>>, <<1>>, <<1, 2>> }
Registered(chans) == chans.all \/ names_registered(channels, chans.names)

Idle == ncalls = 0

ProgramSequence ==
    \E chans \in ChannelArgs, loop \in BOOLEAN, start \in BOOLEAN :
        /\ Idle /\ Registered(chans)
        /\ program_sequence(chans, loop, start)

ProgramAwg ==
    \E elems \in ElementArgs, chans \in ChannelArgs, loop \in BOOLEAN,
       debug \in BOOLEAN :
        /\ Idle /\ Registered(chans)
        /\ program_awg(elems, chans, loop, debug)

Upload ==
    \E elems \in ElementArgs, chans \in ChannelArgs :
        /\ Idle /\ Registered(chans)
        /\ upload(elems, chans)

NextProg ==
    \/ ProgramSequence
    \/ ProgramAwg
    \/ Upload

SpecProg == InitProg /\ [][NextProg]_vars

---------------------------------------------------------------------------
(* Sequences at the element-count ceiling of program_awg: the Sequence
   holds ELEMENT_LIMIT - 1 plain elements (built by that many calls of
   append with fresh names) and grows by further calls of append *)

Filler(n) ==
    [i \in 1..n |-> _make_element_spec(i, 1, 1, None, None, FALSE)]

InitBig ==
    /\ elements = Filler(ELEMENT_LIMIT - 1)
    /\ djump_on \in BOOLEAN
    /\ djump_table = EmptyTable
    /\ channels \in BuiltRegistries(1)
    /\ InitPulsar
    /\ InitCall

AppendFiller ==
    /\ Idle
    /\ Len(elements) <= ELEMENT_LIMIT
    /\ append(Len(elements) + 1, 1,
              [repetitions |-> 1, goto_target |-> None,
               jump_target |-> None, trigger_wait |-> FALSE])

ProgramAwgBig ==
    \E loop \in BOOLEAN, debug \in BOOLEAN :
        Idle /\ program_awg(<<1>>, AllChannels, loop, debug)

NextBig ==
    \/ AppendFiller
    \/ ProgramAwgBig

SpecBig == InitBig /\ [][NextBig]_vars

---------------------------------------------------------------------------
(* Repeated programming: a Pulsar with one channel programs the device
   with program_sequence again and again, while the Sequence grows or is
   replaced by a new Sequence object *)

MaxCalls == 2      \* programming calls made in one behaviour

OneChannel ==
    defined(<<>>, Id(1, "analog"), "a", "analog", 1, -1, TRUE, 0)

InitRun ==
    /\ elements = <<>>
    /\ djump_on = FALSE
    /\ djump_table = EmptyTable
    /\ channels = OneChannel
    /\ InitPulsar
    /\ InitCall

(* Sequence.__init__ *)
NewSequence ==
    /\ call' = [op |-> "Sequence"]
    /\ elements' = <<>>
    /\ djump_on' = FALSE
    /\ djump_table' = EmptyTable
    /\ ret' = "None"
    /\ log' = <<>>
    /\ UNCHANGED <<pulsar_vars, ncalls>>

AppendRun ==
    \E name \in Names, kw \in EltKw :
        /\ Len(elements) < MaxLen
        /\ append(name, kw.wfname, kw)

ProgramSequenceRun ==
    \E loop \in BOOLEAN :
        /\ ncalls < MaxCalls
        /\ program_sequence(AllChannels, loop, FALSE)

NextRun ==
    \/ NewSequence
    \/ AppendRun
    \/ ProgramSequenceRun

SpecRun == InitRun /\ [][NextRun]_vars

---------------------------------------------------------------------------
(* Repeated batch programming: program_awg is called again and again while
   the Sequence grows and its dynamic jump table is switched on, filled and
   switched off *)

ProgramAwgRun ==
    \E loop \in BOOLEAN :
        /\ ncalls < MaxCalls
        /\ program_awg(<<1>>, AllChannels, loop, FALSE)

NextCfg ==
    \/ AppendRun
    \/ SetDjump
    \/ AddDjumpAddress
    \/ ProgramAwgRun

SpecCfg == InitRun /\ [][NextCfg]_vars

---------------------------------------------------------------------------
(* Reading the transactions of a call *)

NamesOf(elts) == { elts[i].name : i \in 1..Len(elts) }

Issued(l, op) == \E k \in 1..Len(l) : l[k][1] = op

(* the places of the transactions op that address sequence index idx
   (their second argument for set_sqel_loopcnt and set_sqel_waveform,
   the first for the others) *)
Writes(l, op, idx) ==
    { k \in 1..Len(l) :
        /\ l[k][1] = op
        /\ IF op \in {"set_sqel_loopcnt"} THEN l[k][3] = idx
           ELSE IF op = "set_sqel_waveform" THEN l[k][4] = idx
           ELSE l[k][2] = idx }

LastOf(S) == CHOOSE k \in S : \A j \in S : j <= k

(* what the device holds for index idx after the transactions l, on a
   device whose set_sq_length(0) cleared every element: 0 where nothing
   was set *)
DevGoto(l, idx) ==
    IF Writes(l, "set_sqel_goto_state", idx) = {} THEN 0
    ELSE IF Writes(l, "set_sqel_goto_target_index", idx) = {} THEN -1
    ELSE l[LastOf(Writes(l, "set_sqel_goto_target_index", idx))][3]

DevJump(l, idx) ==
    IF Writes(l, "set_sqel_event_jump_type", idx) = {} THEN 0
    ELSE IF Writes(l, "set_sqel_event_jump_target_index", idx) = {} THEN -1
    ELSE l[LastOf(Writes(l, "set_sqel_event_jump_target_index", idx))][3]

DevWait(l, idx) ==
    IF Writes(l, "set_sqel_trigger_wait", idx) = {} THEN 0
    ELSE l[LastOf(Writes(l, "set_sqel_trigger_wait", idx))][3]

DevLoopCount(l, idx) ==
    IF Writes(l, "set_sqel_loopcnt", idx) = {} THEN 0
    ELSE l[LastOf(Writes(l, "set_sqel_loopcnt", idx))][2]

(* the names bound at index idx, as the set of <<channel index, name>> *)
DevWaveforms(l, idx) ==
    { <<l[k][3], l[k][2]>> : k \in Writes(l, "set_sqel_waveform", idx) }

(* the arguments program_awg handed to generate_awg_file *)
Generated == call.op = "program_awg" /\ Issued(log, "generate_awg_file")
AwgFile == log[1][2]

Raised == ret \notin {"None", "True", "False"}

---------------------------------------------------------------------------
(* Properties of the programming calls (SpecProg, SpecBig) *)

TargetNamed(elts, target) == target = None \/ target \in NamesOf(elts)

TargetsNamed(elts) ==
    \A i \in 1..Len(elts) :
        /\ TargetNamed(elts, elts[i].goto_target)
        /\ TargetNamed(elts, elts[i].jump_target)

(* C1: with loop=true, on a non-empty Sequence whose branch targets
   resolve, program_sequence leaves the last index with goto enabled and
   goto target 1, and the goto array program_awg hands to file generation
   has 1 in its last place, whatever goto_target the last element has. *)
C1_LoopForcesGotoToFirst ==
    /\ (/\ call.op = "program_sequence"
        /\ call.loop
        /\ Len(elements) > 0
        /\ TargetsNamed(elements))
       => DevGoto(log, Len(elements)) = 1
    /\ (Generated /\ call.loop) => AwgFile.goto_l[Len(elements)] = 1

(* program_sequence ran with loop on a Sequence whose last element names
   itself (index 2) as goto target, and the device holds target 1 *)
C1_Witness ==
    /\ call.op = "program_sequence"
    /\ call.loop
    /\ ret = "None"
    /\ Len(elements) = 2
    /\ elements[2].goto_target = elements[2].name
    /\ DevGoto(log, 2) = 1

(* C2: for the same registry, Sequence, channels argument and loop flag,
   whenever program_awg hands its lists to file generation, the program
   that program_sequence writes for each index (the name bound on every
   involved channel, the loop count, goto, event jump and trigger wait, 0
   where not set) equals the entries of those lists, and the sequence
   length it sets is their length. *)
C2_StrategiesAgree ==
    Generated =>
        LET l == program_sequence_run(elements, djump_on, djump_table,
                     channels, AWG_type, AWG_sequence_cfg, call.channels,
                     call.loop, FALSE).log
            f == AwgFile
            ids == involved_chan_ids(channels, call.channels)
            n == Len(elements)
        IN  /\ Len(f.wfname_l) = Len(ids)
            /\ \A k \in 1..Len(f.wfname_l) : Len(f.wfname_l[k]) = n
            /\ Len(f.nrep_l) = n /\ Len(f.goto_l) = n
            /\ Len(f.logic_jump_l) = n /\ Len(f.wait_l) = n
            /\ \E k \in 1..Len(l) : l[k] = <<"set_sq_length", n>>
            /\ \A idx \in 1..n :
                  /\ DevWaveforms(l, idx) =
                        { <<ids[k], f.wfname_l[k][idx]>> : k \in 1..Len(ids) }
                  /\ DevLoopCount(l, idx) = f.nrep_l[idx]
                  /\ DevGoto(l, idx) = f.goto_l[idx]
                  /\ DevJump(l, idx) = f.logic_jump_l[idx]
                  /\ DevWait(l, idx) = f.wait_l[idx]

(* program_awg generated a file for two elements on two channels, with a
   trigger wait on the first and a goto and an event jump on the second *)
C2_Witness ==
    /\ Generated
    /\ ~call.loop
    /\ Len(AwgFile.wfname_l) = 2
    /\ AwgFile.wait_l = <<1, 0>>
    /\ AwgFile.goto_l = <<0, 2>>
    /\ AwgFile.logic_jump_l = <<0, 1>>
    /\ AwgFile.nrep_l = <<1, 5>>

(* some name of the per-channel name lists of this program_awg call is no
   key of the packed-waveform map of the same call *)
NameMissing ==
    LET ids == involved_chan_ids(channels, call.channels)
        packed == packed_waveforms(channels, call.elements, call.channels)
    IN  \E k \in 1..Len(ids), i \in 1..Len(elements) :
            wf_name(elements[i].wfname, ids[k]) \notin DOMAIN packed

(* C3 as claimed: every program_awg call whose name lists hold a name that
   is no key of the packed-waveform map raises before send_awg_file. *)
C3_MissingNameAlwaysRaises ==
    (call.op = "program_awg" /\ NameMissing)
        => (Raised /\ ~Issued(log, "send_awg_file"))

(* C3 as amended: a program_awg call made with debug=True on a Sequence of
   at most ELEMENT_LIMIT elements whose name lists hold a name that is no
   key of the packed-waveform map raises, and send_awg_file is not called. *)
C3_MissingNameRaisesWhenChecked ==
    (/\ call.op = "program_awg"
     /\ call.debug
     /\ Len(elements) <= ELEMENT_LIMIT
     /\ NameMissing)
        => (Raised /\ ~Issued(log, "send_awg_file"))

(* the consistency check itself found the missing name *)
C3_Witness ==
    /\ call.op = "program_awg"
    /\ call.debug
    /\ NameMissing
    /\ ret = "Exception: does not exist in waveform dictionary"
    /\ ~Issued(log, "send_awg_file")

(* C4: program_awg on a Sequence of more than ELEMENT_LIMIT elements
   returns without raising and without generate_awg_file, send_awg_file,
   load_awg_file or a channel-output command; with exactly ELEMENT_LIMIT
   elements the ceiling does not stop it: a call that returns has generated,
   sent and loaded the file, and a call that no later validation stops
   returns. *)
C4_ElementCeiling ==
    call.op = "program_awg" =>
        /\ Len(elements) > ELEMENT_LIMIT =>
              /\ ret = "None"
              /\ ~Issued(log, "generate_awg_file")
              /\ ~Issued(log, "send_awg_file")
              /\ ~Issued(log, "load_awg_file")
              /\ ~Issued(log, "set_status")
        /\ Len(elements) = ELEMENT_LIMIT =>
              /\ ret = "None" =>
                    /\ Issued(log, "generate_awg_file")
                    /\ Issued(log, "send_awg_file")
                    /\ Issued(log, "load_awg_file")
              /\ (~call.debug /\ ~(djump_on /\ AWG_type /= "opt09"))
                    => ret = "None"

(* program_awg was called on ELEMENT_LIMIT + 1 elements and returned *)
C4_Witness ==
    /\ call.op = "program_awg"
    /\ Len(elements) = ELEMENT_LIMIT + 1
    /\ ret = "None"
    /\ log = <<>>

(* a validation of this program_awg call fails *)
ValidationFails ==
    \/ Len(elements) > ELEMENT_LIMIT
    \/ djump_on /\ AWG_type /= "opt09"
    \/ ~TargetsNamed(elements)
    \/ djump_on /\ \E a \in DOMAIN djump_table :
                       djump_table[a] \notin NamesOf(elements)
    \/ call.debug /\ (NameMissing
                      \/ Len(involved_chan_ids(channels, call.channels)) < 4)

(* C5: a program_awg call that ends in a validation failure (or raises for
   any reason) has issued no send_awg_file, no load_awg_file and no
   channel-output transaction. *)
C5_BatchAtomic ==
    (call.op = "program_awg" /\ (Raised \/ ValidationFails))
        => /\ ~Issued(log, "send_awg_file")
           /\ ~Issued(log, "load_awg_file")
           /\ ~Issued(log, "set_status")

(* program_awg was refused for a dynamic jump table on a device that has
   none, with two active channels registered *)
C5_Witness ==
    /\ call.op = "program_awg"
    /\ ret = AWG_DJUMP_ERROR
    /\ Len(get_used_channel_ids(channels)) = 2
    /\ Len(elements) = 2
    /\ log = <<>>

---------------------------------------------------------------------------
(* Properties of the Sequence object (Spec) *)

(* C6: insert_element and append_element called with a name that an
   element of the Sequence already has return False and leave the element
   list and the dynamic jump table as they were. *)
C6_DuplicateInsertIsNoop ==
    [][ (/\ call'.op \in {"insert_element", "append_element"}
         /\ call'.name \in NamesOf(elements))
        => (/\ ret' = "False"
            /\ elements' = elements
            /\ djump_on' = djump_on
            /\ djump_table' = djump_table) ]_vars

(* append_element was refused on a Sequence of several elements with a
   filled dynamic jump table *)
C6_Witness ==
    /\ call.op = "append_element"
    /\ ret = "False"
    /\ call.name \in NamesOf(elements)
    /\ Len(elements) >= 2
    /\ djump_on /\ DOMAIN djump_table /= {}

(* C7 as claimed: append called with a name that an element already has
   returns the failure result False, not the None of a successful append. *)
C7_AppendReportsCollision ==
    [][ (call'.op = "append" /\ call'.name \in NamesOf(elements))
        => ret' = "False" ]_vars

(* C8: for every element of the Sequence, element_index of its name is its
   1-based position in the list. *)
C8_IndexIsPosition ==
    \A i \in 1..Len(elements) :
        element_index(elements, elements[i].name) = i

(* an element was inserted in front of two others *)
C8_Witness ==
    /\ call.op = "insert_element"
    /\ ret = "True"
    /\ Len(elements) = 3
    /\ elements[1].name = call.name
    /\ element_index(elements, elements[3].name) = 3

(* C9: no two elements of the Sequence have the same name. *)
C9_NamesUnique ==
    \A i, j \in 1..Len(elements) :
        elements[i].name = elements[j].name => i = j

(* a duplicate was refused on a Sequence of three elements, one of which
   has the refused name as its waveform name too *)
C9_Witness ==
    /\ call.op \in {"insert_element", "append", "append_element"}
    /\ call.name \in NamesOf(elements)
    /\ Len(elements) = 3
    /\ \E i \in 1..3 : elements[i].name /= elements[i].wfname

(* C10 as claimed: the dynamic jump table holds at most DJUMP_SLOTS
   addresses, all within 0..DJUMP_SLOTS-1. *)
C10_DjumpTableBound ==
    /\ Cardinality(DOMAIN djump_table) <= DJUMP_SLOTS
    /\ \A a \in DOMAIN djump_table : a \in 0..(DJUMP_SLOTS - 1)

---------------------------------------------------------------------------
(* Properties of packing and of the channel registry *)

(* the array sub-channel sub of physical channel ch is to carry for
   Element n: the Element's samples for the channel registered on that
   sub-channel if there is one and the Element has samples for it, else as
   many zeros as the Element has samples *)
ExpectedArray(n, ch, sub) ==
    LET e == Element(n)
        owners == { i \in 1..Len(channels) :
                      /\ channels[i].id = [ch |-> ch, sub |-> sub]
                      /\ channels[i].name \in DOMAIN e.wfs }
    IN  IF owners /= {}
        THEN e.wfs[channels[CHOOSE i \in owners : TRUE].name]
        ELSE [k \in 1..e.samples |-> 0]

(* C11: every send_waveform of upload, and every entry of the packed
   waveform map of program_awg, carries for each of the three sub-channels
   of its physical channel the Element's samples for the channel bound to
   that sub-channel when one is bound and the Element supplies samples for
   it, and otherwise zeros, exactly as many as the Element has samples. *)
C11_ZeroFill ==
    /\ call.op = "upload" =>
          \A k \in 1..Len(log) :
              log[k][1] = "send_waveform" =>
                  LET w == log[k][5]
                  IN  /\ log[k][2] = ExpectedArray(w[1], w[2], "analog")
                      /\ log[k][3] = ExpectedArray(w[1], w[2], "marker1")
                      /\ log[k][4] = ExpectedArray(w[1], w[2], "marker2")
    /\ Generated =>
          \A w \in DOMAIN AwgFile.packed_waveforms :
              LET blob == AwgFile.packed_waveforms[w]
              IN  /\ blob[1] = ExpectedArray(w[1], w[2], "analog")
                  /\ blob[2] = ExpectedArray(w[1], w[2], "marker1")
                  /\ blob[3] = ExpectedArray(w[1], w[2], "marker2")

(* upload sent Element 1, which has samples for channel a only, to two
   physical channels: its samples on ch1 and zeros on ch2, where channel b
   is bound, and zeros on every marker *)
C11_Witness ==
    /\ call.op = "upload"
    /\ \E k \in 1..Len(log) :
          /\ log[k][1] = "send_waveform"
          /\ log[k][5] = wf_name(1, 1)
          /\ log[k][2] = <<1, 1>>
          /\ log[k][3] = <<0, 0>>
    /\ \E k \in 1..Len(log) :
          /\ log[k][1] = "send_waveform"
          /\ log[k][5] = wf_name(1, 2)
          /\ log[k][2] = <<0, 0>>
          /\ name_bound(channels, 2, "analog") = "b"

Entries(chs) == { chs[i] : i \in 1..Len(chs) }

(* C12: in every registry built by define_channel at most one channel has
   any given id; a define_channel(id, name) call leaves name as the owner
   of id, removes the previous owner of id from the registry, and leaves
   every other channel (one that neither had this id nor has this name) as
   it was, so an id keeps the owner of the latest call for it until that
   owner is registered under another id; no other operation changes the
   registry. *)
C12_RegistryOwnership ==
    /\ [](\A i, j \in 1..Len(channels) :
              channels[i].id = channels[j].id => i = j)
    /\ [][ IF call'.op = "define_channel"
           THEN /\ \E c \in Entries(channels') :
                      c.name = call'.name /\ c.id = call'.id
                /\ \A c \in Entries(channels) :
                      (c.id = call'.id /\ c.name /= call'.name)
                          => \A d \in Entries(channels') : d.name /= c.name
                /\ { d \in Entries(channels') : d.name /= call'.name }
                      = { c \in Entries(channels) :
                            c.id /= call'.id /\ c.name /= call'.name }
           ELSE channels' = channels ]_vars

(* define_channel found the id in use, warned, and left two channels
   behind, the new owner among them *)
C12_Witness ==
    /\ call.op = "define_channel"
    /\ Issued(log, "logging.warning")
    /\ Len(channels) = 2
    /\ \E c \in Entries(channels) : c.name = call.name /\ c.id = call.id

(* the physical channels (1 for 'ch1') with at least one active channel *)
ActivePrefixes == { c.id.ch : c \in { d \in Entries(channels) : d.active } }

NoRepeats(l) == \A i, j \in 1..Len(l) : l[i] = l[j] => i = j
Range(l) == { l[i] : i \in 1..Len(l) }

SubIds(ch) == { [ch |-> ch, sub |-> sub] :
                  sub \in {"analog", "marker1", "marker2"} }

(* C13 as claimed: get_used_subchannel_ids(all_subchannels=False) returns
   exactly the prefixes ('ch1', which is also the id of the analog
   sub-channel) of the physical channels that have an active channel, each
   once; with all_subchannels=True the three sub-channel ids of each such
   prefix, each once; get_used_channel_ids returns the same prefixes. *)
C13_UsedIdsArePrefixes ==
    /\ call.op = "get_used_subchannel_ids" =>
          /\ NoRepeats(ret)
          /\ Range(ret) =
                IF call.all_subchannels
                THEN UNION { SubIds(ch) : ch \in ActivePrefixes }
                ELSE { [ch |-> ch, sub |-> "analog"] : ch \in ActivePrefixes }
    /\ call.op = "get_used_channel_ids" =>
          NoRepeats(ret) /\ Range(ret) = ActivePrefixes

(* C13 as amended: get_used_subchannel_ids(all_subchannels=False) returns
   exactly the ids of the active channels as they are registered (analog
   or marker sub-channel ids), each once; with all_subchannels=True the
   three sub-channel ids of every physical channel that has an active
   channel, each once; get_used_channel_ids returns the prefixes of those
   physical channels, each once. *)
C13_UsedIds ==
    /\ call.op = "get_used_subchannel_ids" =>
          /\ NoRepeats(ret)
          /\ Range(ret) =
                IF call.all_subchannels
                THEN UNION { SubIds(ch) : ch \in ActivePrefixes }
                ELSE { c.id : c \in { d \in Entries(channels) : d.active } }
    /\ call.op = "get_used_channel_ids" =>
          NoRepeats(ret) /\ Range(ret) = ActivePrefixes

(* the query without all_subchannels on a registry with an active marker
   and an active analog channel of the same physical channel, and an
   inactive channel elsewhere *)
C13_Witness ==
    /\ call.op = "get_used_subchannel_ids"
    /\ ~call.all_subchannels
    /\ Len(ret) = 2
    /\ \E c \in Entries(channels) : c.active /\ c.id.sub = "marker1"
    /\ \E c \in Entries(channels) : c.active /\ c.id = [ch |-> 1, sub |-> "analog"]
    /\ \E c \in Entries(channels) : ~c.active

(* C14: activate_channels(channels) issues the output-on command of a
   physical channel, once, exactly when a channel registered on one of its
   three sub-channels is active and, unless channels is 'all', named in
   channels; it issues nothing else. *)
C14_ActivationRule ==
    call.op = "activate_channels" =>
        /\ \A k \in 1..Len(log) :
              log[k][1] = "set_status" /\ log[k][3] = "on"
        /\ NoRepeats(log)
        /\ { log[k][2] : k \in 1..Len(log) } =
              { c.id.ch : c \in { d \in Entries(channels) :
                    /\ d.active
                    /\ call.channels.all
                          \/ d.name \in Range(call.channels.names) } }

(* activate_channels(['b', 'c']) switched one physical channel on and left
   off another one whose only active channel is not in the list *)
C14_Witness ==
    /\ call.op = "activate_channels"
    /\ ~call.channels.all
    /\ Len(log) = 1
    /\ \E c \in Entries(channels) :
          c.active /\ c.name = "a" /\ c.id.ch /= log[1][2]
    /\ \E c \in Entries(channels) :
          ~c.active /\ c.name = "c" /\ c.id.ch = log[1][2]

---------------------------------------------------------------------------
(* Further properties of the programming calls (SpecProg) *)

(* C15: a program_sequence or program_awg call, whether it completes,
   gives up or raises, leaves the element list of the Sequence (order and
   every field of every element) and its dynamic jump table as they were
   before the call. *)
C15_SequenceUntouched ==
    [][ call'.op \in {"program_sequence", "program_awg"}
        => /\ elements' = elements
           /\ djump_on' = djump_on
           /\ djump_table' = djump_table ]_vars

(* program_awg ran with loop on a Sequence of two elements whose last one
   has a goto target of its own, with a filled dynamic jump table, and
   generated the file *)
C15_Witness ==
    /\ Generated
    /\ call.loop
    /\ Len(elements) = 2
    /\ elements[2].goto_target = elements[2].name
    /\ djump_on
    /\ DOMAIN djump_table /= {}

Unsupported == djump_on /\ AWG_type /= "opt09"

(* C16 as claimed, on a non-empty Sequence and with at least one Element
   given to program_awg: with the dynamic jump table enabled on a device
   that is not 'opt09', program_sequence and program_awg fail with the
   'does not support dynamic jumping' error. *)
C16_AlwaysExplicitError ==
    (/\ Unsupported
     /\ Len(elements) > 0
     /\ call.op = "program_sequence"
           \/ (call.op = "program_awg" /\ Len(call.elements) > 0))
        => ret \in {DJUMP_ERROR, AWG_DJUMP_ERROR}

(* C16 as amended: with the dynamic jump table enabled (even if empty) on
   a device that is not 'opt09', program_sequence never starts the device
   and never returns normally, and program_awg never generates or sends a
   file; the error is the 'does not support dynamic jumping' one whenever
   no earlier step of the call has failed or given up, that is when every
   name in channels is registered (as in every call made here), every goto
   and jump target names an element, the Sequence is non-empty or loop is
   off, and program_awg is given at least one Element and at most
   ELEMENT_LIMIT sequence elements. *)
C16_UnsupportedDjump ==
    /\ (Unsupported /\ call.op = "program_sequence") =>
          /\ ~Issued(log, "start")
          /\ ret /= "None"
          /\ (TargetsNamed(elements) /\ (call.loop => Len(elements) > 0))
                => ret = DJUMP_ERROR
    /\ (Unsupported /\ call.op = "program_awg") =>
          /\ ~Issued(log, "generate_awg_file")
          /\ ~Issued(log, "send_awg_file")
          /\ (/\ TargetsNamed(elements)
              /\ call.loop => Len(elements) > 0
              /\ Len(call.elements) > 0
              /\ Len(elements) <= ELEMENT_LIMIT)
                => ret = AWG_DJUMP_ERROR

(* program_sequence with start=True was refused for an enabled but empty
   jump table after it had programmed two elements *)
C16_Witness ==
    /\ call.op = "program_sequence"
    /\ call.start
    /\ Unsupported
    /\ DOMAIN djump_table = {}
    /\ Len(elements) = 2
    /\ ret = DJUMP_ERROR
    /\ Issued(log, "set_sqel_loopcnt")

(* the 1-based position of the element called name *)
PositionOf(name) ==
    CHOOSE i \in 1..Len(elements) : elements[i].name = name

(* the places of the set_djump_def transactions for address a, and what
   the device holds in that slot after the transactions l *)
SlotWrites(l, a) ==
    { k \in 1..Len(l) : l[k][1] = "set_djump_def" /\ l[k][2] = a }

DevSlot(l, a) == l[LastOf(SlotWrites(l, a))][3]

JumpModes(l) ==
    { l[k][2] : k \in { j \in 1..Len(l) : l[j][1] = "set_event_jump_mode" } }

(* C17: on an 'opt09' device, a program_sequence call that completes with
   the table enabled has set the jump mode to DJUM, has cleared all
   DJUMP_SLOTS slots before any populated write, and leaves in slot a the
   index of the element table[a] for every configured address a and 0 in
   every other slot; a program_awg call that generates the file passes
   EVENT_JUMP_MODE 2 and a TABLE_JUMP_DEFINITION with the same contents.
   With the table disabled the mode is EJUM, respectively 1, and no slot
   is written. *)
C17_JumpTableContents ==
    /\ (call.op = "program_sequence" /\ ret = "None" /\ AWG_type = "opt09")
       => IF djump_on
          THEN /\ JumpModes(log) = {"DJUM"}
               /\ \A a \in 0..(DJUMP_SLOTS - 1) :
                     \E k \in SlotWrites(log, a) : log[k][3] = 0
               /\ \A k, j \in 1..Len(log) :
                     (/\ log[k][1] = "set_djump_def" /\ log[k][3] = 0
                      /\ log[j][1] = "set_djump_def" /\ log[j][3] /= 0)
                         => k < j
               /\ \A a \in (0..(DJUMP_SLOTS - 1)) \cup DOMAIN djump_table :
                     DevSlot(log, a) =
                         IF a \in DOMAIN djump_table
                         THEN PositionOf(djump_table[a]) ELSE 0
          ELSE /\ JumpModes(log) = {"EJUM"}
               /\ ~Issued(log, "set_djump_def")
    /\ (Generated /\ AWG_type = "opt09")
       => LET cfg == AwgFile.sequence_cfg
          IN  IF djump_on
              THEN /\ cfg.EVENT_JUMP_MODE = 2
                   /\ Len(cfg.TABLE_JUMP_DEFINITION) = DJUMP_SLOTS
                   /\ \A a \in 0..(DJUMP_SLOTS - 1) :
                         cfg.TABLE_JUMP_DEFINITION[a + 1] =
                             IF a \in DOMAIN djump_table
                             THEN PositionOf(djump_table[a]) ELSE 0
              ELSE /\ cfg.EVENT_JUMP_MODE = 1
                   /\ cfg.TABLE_JUMP_DEFINITION = <<>>

(* program_awg generated a file on an 'opt09' device with addresses 0 and
   15 both set to the element at index 2 *)
C17_Witness ==
    /\ Generated
    /\ AWG_type = "opt09"
    /\ djump_on
    /\ DOMAIN djump_table = {0, 15}
    /\ Len(elements) = 2
    /\ elements[2].name = djump_table[0]
    /\ AwgFile.sequence_cfg.TABLE_JUMP_DEFINITION[1] = 2
    /\ AwgFile.sequence_cfg.TABLE_JUMP_DEFINITION[16] = 2
    /\ AwgFile.sequence_cfg.TABLE_JUMP_DEFINITION[2] = 0

(* the physical channels a programming call involves: those with an active
   channel for 'all', else those of the named channels *)
RequiredIds ==
    IF call.channels.all THEN ActivePrefixes
    ELSE { c.id.ch : c \in { d \in Entries(channels) :
                               d.name \in Range(call.channels.names) } }

Bindings(l) == { k \in 1..Len(l) : l[k][1] = "set_sqel_waveform" }

(* C18: a completed program_sequence has issued one waveform binding for
   every pair of a 1-based element index idx and a required physical
   channel, and no other: element_count() times the number of required
   channels in all, each binding the name wfname + '_' + id to the channel
   number of id at idx; the last sequence length written is
   element_count().  For the example A, B, C on one channel these are 3
   bindings, trigger wait on index 1 only, goto target 1 on index 3, and
   length 3. *)
C18_WaveformBindings ==
    (call.op = "program_sequence" /\ ret = "None") =>
        /\ Cardinality(Bindings(log)) =
              Len(elements) * Cardinality(RequiredIds)
        /\ \A idx \in 1..Len(elements), ch \in RequiredIds :
              \E k \in Bindings(log) :
                  log[k] = <<"set_sqel_waveform",
                             <<elements[idx].wfname, ch>>, ch, idx>>
        /\ LET lens == { k \in 1..Len(log) : log[k][1] = "set_sq_length" }
           IN  log[LastOf(lens)][2] = Len(elements)
        /\ (elements = ExampleSequence /\ Cardinality(RequiredIds) = 1) =>
              /\ Cardinality(Bindings(log)) = 3
              /\ DevWait(log, 1) = 1 /\ DevWait(log, 2) = 0
              /\ DevWait(log, 3) = 0
              /\ DevGoto(log, 3) = 1

(* program_sequence(channels=['a', 'b'], loop=False) completed on the
   example A, B, C with channels a and b on the same physical channel *)
C18_Witness ==
    /\ call.op = "program_sequence"
    /\ ret = "None"
    /\ ~call.loop
    /\ elements = ExampleSequence
    /\ call.channels.names = <<"a", "b">>
    /\ RequiredIds = {1}
    /\ Cardinality(Bindings(log)) = 3
    /\ DevGoto(log, 3) = 1

(* the entry of the goto or jump array for a target: its 1-based position,
   0 for None *)
EntryFor(target) == IF target = None THEN 0 ELSE PositionOf(target)

(* the per-channel name lists of a program_awg call, in any order of the
   channels *)
NameLists(f) == { f.wfname_l[k] : k \in 1..Len(f.wfname_l) }

(* C19: the lists program_awg hands to file generation all have
   element_count() entries in sequence order: there is one name list per
   required physical channel id, with entry i the name wfname_i + '_' + id;
   entry i of repetitions is repetitions_i, of triggerWait 1 or 0 as
   trigger_wait_i is set or not, of goto and of jump the 1-based index of
   the target element or 0 when there is none (the last goto entry being 1
   instead when loop is set).  For the example A, B, C with loop=false
   goto is [0,0,1], triggerWait [1,0,0], repetitions [1,5,1]. *)
C19_ParallelArrays ==
    Generated =>
        LET f == AwgFile
            n == Len(elements)
        IN  /\ Len(f.wfname_l) = Cardinality(RequiredIds)
            /\ NameLists(f) =
                  { [i \in 1..n |-> <<elements[i].wfname, ch>>] :
                      ch \in RequiredIds }
            /\ f.nrep_l = [i \in 1..n |-> elements[i].repetitions]
            /\ f.wait_l =
                  [i \in 1..n |-> IF elements[i].trigger_wait THEN 1 ELSE 0]
            /\ f.goto_l =
                  [i \in 1..n |->
                      IF call.loop /\ i = n THEN 1
                      ELSE EntryFor(elements[i].goto_target)]
            /\ f.logic_jump_l =
                  [i \in 1..n |-> EntryFor(elements[i].jump_target)]
            /\ (elements = ExampleSequence /\ ~call.loop) =>
                  /\ \A l \in NameLists(f) : Len(l) = 3
                  /\ f.goto_l = <<0, 0, 1>>
                  /\ f.wait_l = <<1, 0, 0>>
                  /\ f.nrep_l = <<1, 5, 1>>

(* program_awg generated the file of the example A, B, C with loop=False
   for four physical channels *)
C19_Witness ==
    /\ Generated
    /\ ~call.loop
    /\ elements = ExampleSequence
    /\ Len(AwgFile.wfname_l) = 4
    /\ AwgFile.goto_l = <<0, 0, 1>>
    /\ AwgFile.nrep_l = <<1, 5, 1>>

(* the transactions that set a property of one sequence index *)
PerElementOps ==
    { "set_sqel_waveform", "set_sqel_loopcnt_to_inf", "set_sqel_loopcnt",
      "set_sqel_goto_state", "set_sqel_goto_target_index",
      "set_sqel_event_jump_type", "set_sqel_event_jump_target_index",
      "set_sqel_trigger_wait" }

Places(l, ops) == { k \in 1..Len(l) : l[k][1] \in ops }

OutputsOn(l) ==
    { k \in 1..Len(l) : l[k][1] = "set_status" /\ l[k][3] = "on" }

(* C20: in the transactions of a program_sequence call, stop comes first
   (and once); the sequence length is set twice, to 0 and right after to
   element_count(), before every per-element transaction; every output-on
   command of the channel activation comes after every per-element
   transaction; when loop is set and the call gets past the element loop,
   the override (goto state '1', goto target 1 on the last index) is issued
   on top of the elements' own goto settings, as the last two per-element
   transactions; start is issued only with start=true, only by a call that
   completes, and then once, as the last transaction. *)
C20_TransactionOrder ==
    (call.op = "program_sequence" /\ log /= <<>>) =>
        LET n == Len(elements)
            pe == Places(log, PerElementOps)
            lens == Places(log, {"set_sq_length"})
            gotos == Places(log, {"set_sqel_goto_state"})
            own == { i \in 1..n : elements[i].goto_target /= None }
        IN  /\ Places(log, {"stop"}) = {1}
            /\ \E k \in 2..(Len(log) - 1) :
                  /\ lens = {k, k + 1}
                  /\ log[k][2] = 0 /\ log[k + 1][2] = n
                  /\ \A j \in pe : j > k + 1
            /\ \A a \in OutputsOn(log), j \in pe : a > j
            /\ (call.loop /\ ret \in {"None", DJUMP_ERROR}) =>
                  /\ Cardinality(gotos) = Cardinality(own) + 1
                  /\ log[LastOf(pe \ {LastOf(pe)})] =
                        <<"set_sqel_goto_state", n, "1">>
                  /\ log[LastOf(pe)] = <<"set_sqel_goto_target_index", n, 1>>
            /\ (call.start /\ ret = "None") =>
                  Places(log, {"start"}) = {Len(log)}
            /\ (~call.start \/ ret /= "None") => Places(log, {"start"}) = {}

(* program_sequence(loop=True, start=True) completed on two elements, the
   last with a goto target of its own, and switched an output on *)
C20_Witness ==
    /\ call.op = "program_sequence"
    /\ call.loop /\ call.start
    /\ ret = "None"
    /\ Len(elements) = 2
    /\ elements[2].goto_target /= None
    /\ OutputsOn(log) /= {}
    /\ log[Len(log)] = <<"start">>

---------------------------------------------------------------------------
(* Properties of channel set-up and of repeated programming *)

(* the transactions of the setup_channels step of a program_sequence call:
   those before the first set_sq_length *)
SetupStep(l) ==
    SubSeq(l, 1, (CHOOSE k \in Places(l, {"set_sq_length"}) :
                     \A j \in Places(l, {"set_sq_length"}) : k <= j) - 1)

BoundOps == {"set_amplitude", "set_offset", "set_low", "set_high"}

(* C21 as claimed: in the setup_channels step of program_sequence, every
   amplitude, offset or marker high/low written to a sub-channel of a
   physical channel that has a registered channel comes after the
   output-off command of that physical channel, and the step (run with
   output=False) switches no output on. *)
C21_OffBeforeBounds ==
    (call.op = "program_sequence" /\ log /= <<>>) =>
        LET s == SetupStep(log)
        IN  /\ \A c \in Entries(channels), k \in 1..Len(s) :
                  (s[k][1] \in BoundOps /\ s[k][2].ch = c.id.ch)
                      => \E j \in 1..(k - 1) :
                            s[j] = <<"set_status", c.id.ch, "off">>
            /\ OutputsOn(s) = {}

(* C22: after any series of program_sequence calls, the last of which
   completed, the device holds as many elements as the Sequence of that
   call and, at each index, goto enabled exactly when the element has a
   goto_target or is the last one and loop was set (with the target's
   index, 1 for the loop), an indexed event jump exactly when it has a
   jump_target, and trigger wait exactly when trigger_wait is set; and after
   any call that reached the device, completed or not, the device is as
   the transactions of that call alone leave a cleared device. *)
C22_NoStaleState ==
    /\ (call.op = "program_sequence" /\ log /= <<>>)
          => AWG = awg_after(PoweredOn, log)
    /\ (call.op = "program_sequence" /\ ret = "None") =>
          LET n == Len(elements)
          IN  /\ Len(AWG.sq) = n
              /\ \A idx \in 1..n :
                    LET e == elements[idx]
                        d == AWG.sq[idx]
                        looped == call.loop /\ idx = n
                    IN  /\ d.goto_state = "1"
                              <=> (e.goto_target /= None \/ looped)
                        /\ d.goto_state = "1" =>
                              d.goto_target_index =
                                  IF looped THEN 1
                                  ELSE PositionOf(e.goto_target)
                        /\ d.event_jump_type = "IND" <=> e.jump_target /= None
                        /\ d.event_jump_type = "IND" =>
                              d.event_jump_target_index =
                                  PositionOf(e.jump_target)
                        /\ d.trigger_wait = 1 <=> e.trigger_wait

(* the second program_sequence call, without loop, completed on two
   elements of which only the second has a goto target, an event jump and
   no trigger wait, and the device holds exactly that *)
C22_Witness ==
    /\ call.op = "program_sequence"
    /\ ncalls = 2
    /\ ret = "None"
    /\ ~call.loop
    /\ Len(elements) = 2
    /\ elements[1].trigger_wait /\ ~elements[2].trigger_wait
    /\ elements[1].goto_target = None
    /\ AWG.sq[1].goto_state = "0" /\ AWG.sq[1].trigger_wait = 1
    /\ AWG.sq[2].goto_state = "1" /\ AWG.sq[2].trigger_wait = 0
    /\ AWG.sq[2].event_jump_type = "IND"

---------------------------------------------------------------------------
(* Properties of upload and of the waveform names *)

(* the physical channels an upload call sends to: those with an active
   channel that pass the channels filter *)
UploadIds ==
    IF call.channels.all THEN ActivePrefixes
    ELSE ActivePrefixes \cap RequiredIds

(* C23: an upload call whose channel names are all registered issues, for
   each Element in argument order, one send_waveform immediately followed by
   one import_waveform_file for every used physical channel that passes the
   channels filter, both under the name elementName + '_' + id, and nothing
   else: nothing for a channel that is unused or filtered out. *)
C23_UploadTransactions ==
    (call.op = "upload" /\ ret = "None") =>
        LET m == Cardinality(UploadIds)
            elems == call.elements
        IN  /\ Len(log) = 2 * m * Len(elems)
            /\ \A i \in 1..Len(elems) :
                  LET block == { 2 * m * (i - 1) + 2 * j - 1 : j \in 1..m }
                  IN  /\ \A k \in block :
                            /\ log[k][1] = "send_waveform"
                            /\ log[k][5][1] = elems[i]
                            /\ log[k + 1] = <<"import_waveform_file",
                                              log[k][5], log[k][5], "wfm">>
                      /\ { log[k][5][2] : k \in block } = UploadIds

(* upload of Elements 1 and 2 for channel 'a' only, with channel 'b' active
   on another physical channel: two pairs of transactions, all for ch1 *)
C23_Witness ==
    /\ call.op = "upload"
    /\ call.elements = <<1, 2>>
    /\ call.channels = ChannelList(<<"a">>)
    /\ ActivePrefixes = {1, 2}
    /\ Len(log) = 4
    /\ log[1][5] = wf_name(1, 1)
    /\ log[3][5] = wf_name(2, 1)

(* nothing before the consistency check stops this program_awg call *)
CheckReached ==
    /\ Len(call.elements) > 0
    /\ Len(elements) <= ELEMENT_LIMIT
    /\ TargetsNamed(elements)
    /\ call.loop => Len(elements) > 0
    /\ ~Unsupported
    /\ djump_on => \A a \in DOMAIN djump_table :
                      a < DJUMP_SLOTS /\ djump_table[a] \in NamesOf(elements)

(* C24 as claimed: a program_awg call made with debug=True that reaches
   the consistency check with 1 to 4 required physical channels passes it
   (and completes) exactly when every listed name is a key of the
   packed-waveform map (the lists it builds always have equal lengths), and
   otherwise raises the missing-name error. *)
C24_CheckResult ==
    (/\ call.op = "program_awg"
     /\ call.debug
     /\ CheckReached
     /\ Cardinality(RequiredIds) \in 1..4)
        => IF NameMissing
           THEN ret = "Exception: does not exist in waveform dictionary"
           ELSE ret = "None"

(* every wfname of the Sequence is the name of an Element given to the
   call *)
WfnamesGiven ==
    \A i \in 1..Len(elements) : elements[i].wfname \in Range(call.elements)

(* C25 as claimed: whenever program_awg hands its lists to file generation
   and every wfname of the Sequence is the name of one of the Elements
   passed in, every name in the per-channel name lists is a key of the
   packed-waveform map of the same call, for 'all' and for every list of
   registered channel names, active or not. *)
C25_NamesResolve ==
    (Generated /\ WfnamesGiven) =>
        \A k \in 1..Len(AwgFile.wfname_l) :
            \A i \in 1..Len(AwgFile.wfname_l[k]) :
                AwgFile.wfname_l[k][i] \in DOMAIN AwgFile.packed_waveforms

(* the names an upload call registered on the device *)
Imported(l) ==
    { l[k][2] : k \in Places(l, {"import_waveform_file"}) }

(* C26 as claimed: after upload(elements, channels) has completed, every
   waveform name that program_sequence binds, for the same registry and the
   same channels argument, on a Sequence whose wfnames are all names of the
   uploaded Elements, is a name the upload registered on the device, also
   when channels names a channel that is not active. *)
C26_UploadedNamesBound ==
    (call.op = "upload" /\ ret = "None" /\ WfnamesGiven) =>
        LET l == program_sequence_run(elements, djump_on, djump_table,
                     channels, AWG_type, AWG_sequence_cfg, call.channels,
                     FALSE, FALSE).log
        IN  \A k \in Bindings(l) : l[k][2] \in Imported(log)

(* the channels registered on a sub-channel of physical channel k *)
ChannelsOn(k) == { c \in Entries(channels) : c.id.ch = k }

(* C27 as claimed: the configuration get_awg_channel_cfg returns has a
   CHANNEL_STATE entry for physical channel k exactly when a channel is
   registered on k (on chk, chk_marker1 or chk_marker2), and the entry is 1
   when at least one of those channels is active and 0 otherwise, whatever
   the order of the registry. *)
C27_ChannelState ==
    call.op = "get_awg_channel_cfg" =>
        \A k \in 1..4 :
            IF ChannelsOn(k) = {}
            THEN <<"CHANNEL_STATE", k>> \notin DOMAIN ret
            ELSE /\ <<"CHANNEL_STATE", k>> \in DOMAIN ret
                 /\ ret[<<"CHANNEL_STATE", k>>] =
                       IF \E c \in ChannelsOn(k) : c.active THEN 1 ELSE 0

---------------------------------------------------------------------------
(* Properties of repeated batch programming (SpecCfg) *)

(* C28 as claimed: the sequencing configuration program_awg hands to file
   generation follows from the configuration the caller supplied and the
   Sequence of the current call alone: with the table disabled it carries
   no jump-table definition (none was supplied), whatever earlier calls
   programmed, and on an 'opt09' device its jump mode is that of the
   current Sequence. *)
C28_NoStaleJumpTable ==
    Generated =>
        LET cfg == AwgFile.sequence_cfg
        IN  /\ ~djump_on => cfg.TABLE_JUMP_DEFINITION = <<>>
            /\ AWG_type = "opt09" =>
                  cfg.EVENT_JUMP_MODE = IF djump_on THEN 2 ELSE 1

---------------------------------------------------------------------------
(* Properties of the empty Sequence and of the jump table (SpecProg, Spec) *)

(* C29 as claimed: program_sequence and program_awg (given an Element)
   called with loop=True on a Sequence without elements, with no dynamic
   jump table, complete without raising, program a sequence of length zero
   and write no goto state. *)
C29_EmptySequenceLoops ==
    (/\ call.op \in {"program_sequence", "program_awg"}
     /\ call.loop
     /\ Len(elements) = 0
     /\ ~djump_on
     /\ call.op = "program_awg" => Len(call.elements) > 0)
        => /\ ret = "None"
           /\ ~Issued(log, "set_sqel_goto_state")
           /\ call.op = "program_sequence" => Len(AWG.sq) = 0
           /\ call.op = "program_awg" => Generated /\ AwgFile.goto_l = <<>>

(* C30 as claimed: set_djump(True) on a Sequence whose dynamic jump table
   is already enabled keeps the table as it is, with every address added
   since it was last disabled. *)
C30_EnableKeepsAddresses ==
    [][ (call'.op = "set_djump" /\ call'.state /\ djump_on)
        => (djump_on' /\ djump_table' = djump_table) ]_vars

====
